---- MODULE Spec2Model ----
(***************************************************************************)
(* RTcmix: the bus routing graph (src/src/rtcmix/bus_config.cpp) and the   *)
(* mixer (addToBus / mixOperation / mixToBus), as state machines.          *)
(*                                                                         *)
(* Arrays of the program are sequences; the C index i is the TLA+ index    *)
(* i+1.  A play list or bus_list cell that was never written holds -1.      *)
(***************************************************************************)
EXTENDS Integers, Sequences, FiniteSets, TLC

(* ----------------------------- bounds ---------------------------------- *)
BusCount == 4       \* RTcmix::busCount of the modelled engine
NChans == 2         \* NCHANS of the modelled engine (set by rtsetparams)
MaxCalls == 3       \* bus_config / get_bus_config calls in one behaviour
BufSamps == 5       \* bufsamps(): the frames of one block
RT_THREAD_COUNT == 2 \* worker threads of the multi-threaded build
MaxAdds == 2        \* addToBus calls in one behaviour
MaxParseCalls == 1  \* bus_config calls in one behaviour of the bus name parser
MAXSTACK == 3       \* cells of list_stack and list_len_stack
MAXDISPARGS == 3    \* cells of one argument list
MaxStmts == 3       \* statements of the score executed in one behaviour

Buses == 0 .. (BusCount - 1)
InstNames == {"A", "B", "C"}

(* The fictitious aux-out bus of bf_traverse. *)
SENTINEL == 333

VARIABLES
    BusConfigs,          \* per bus: the flags, RevPlay and In_Config
    ToOutPlayList, ToAuxPlayList, AuxToAuxPlayList,
    Visited,             \* the file-static Visited[MAXBUS]
    Inst_Bus_Config,     \* the BusQueue list: <<[inst_name, slot]>>, slot a chain
    Bus_Config_Status,   \* YES once In_Config has been allocated
    aux_allocated,       \* buses whose aux buffer allocate_aux_buffer was called for
    heapOverflow,        \* a store outside a bus-indexed array has happened
    nCalls,              \* calls made so far (also the identity of the next BusSlot)
    lastOp,              \* the most recent call: "bus_config" or "get_bus_config"
    lastErr,             \* outcome of the most recent bus_config
    lastAccepted,        \* per instrument name: id of the slot of its last accepted bus_config
    ret,                 \* what the most recent get_bus_config returned
    hist                 \* scenario specification only: the calls made, in order

busVars == <<BusConfigs, ToOutPlayList, ToAuxPlayList, AuxToAuxPlayList, Visited,
             Inst_Bus_Config, Bus_Config_Status, aux_allocated, heapOverflow,
             nCalls, lastOp, lastErr, lastAccepted, ret, hist>>

VARIABLES
    out_buffer, aux_buffer,   \* per bus: BufSamps samples
    mixVectors,               \* per worker thread: the MixData records queued
    mixLog,                   \* the records the last mixToBus applied, in the order applied
    mixCall,                  \* the arguments of the most recent addToBus
    stBuffers,                \* the buffers single-threaded addToBus gives for the same calls
    nAdds                     \* addToBus calls made so far

mixVars == <<out_buffer, aux_buffer, mixVectors, mixLog, mixCall, stBuffers, nAdds>>

VARIABLES
    bus_slot_lock,   \* the caller that holds bus_slot_lock, or "free"
    pc,              \* per caller: where it is in bus_config / get_bus_config
    call,            \* per caller: the arguments of the call it is in
    parsed,          \* per caller: bus_config's locals after the argument loop
    committed        \* the graph as the last finished call left it

lockVars == <<bus_slot_lock, pc, call, parsed, committed>>

VARIABLES
    minc,            \* the Minc interpreter: statics of Node.cpp, symbol table, heap
    stmt,            \* the statement executed last (index into Programs, 0: none)
    nStmts,          \* statements executed so far
    aliases          \* pairs of names a completed Store made refer to one list

mincVars == <<minc, stmt, nStmts, aliases>>

VARIABLES
    tempoState,      \* the statics of the tempo map: xtime, temp, rxtime, accel, BASIS, tset, npts
    tempoCall,       \* the most recent call of tempo: its arguments and how it ended
    tempoQuery       \* the most recent call of t since the map last changed

tempoVars == <<tempoState, tempoCall, tempoQuery>>

VARIABLES
    options,             \* the Option object
    rtsetparams_called,  \* set once rtsetparams has been called
    optionCall           \* the most recent call of set_option: arguments, result, state before

optionVars == <<options, rtsetparams_called, optionCall>>

VARIABLE
    builtinCall          \* the most recent call of a builtin: name, arguments, result, warnings

VARIABLES
    mutexOwner,          \* per mutex of the bus graph: the thread that holds it, or "free"
    lockThread           \* per thread: the statement it is at, its return addresses, the mutexes it took

mutexVars == <<mutexOwner, lockThread>>

cmdVars == <<tempoVars, optionVars, builtinCall, mutexVars>>

vars == <<busVars, mixVars, lockVars, mincVars, cmdVars>>

(* ------------------------- array helpers ------------------------------- *)
ArrOf(v) == [i \in 1 .. BusCount |-> v]

InArr(j) == j >= 0 /\ j < BusCount

(* arr[j] = v; a store outside the array is not reflected in the array *)
Put(arr, j, v) == IF InArr(j) THEN [arr EXCEPT ![j + 1] = v] ELSE arr

(* arr[j], the arrays being zero- or -1-filled on construction *)
Get(arr, j) == IF InArr(j) THEN arr[j + 1] ELSE 0

(* --------------------------- BusSlot ----------------------------------- *)
(* BusSlot::BusSlot: four zeroed arrays of busCount shorts and four counts *)
NewBusSlot(id) ==
    [id |-> id,
     in |-> ArrOf(0), out |-> ArrOf(0), auxin |-> ArrOf(0), auxout |-> ArrOf(0),
     in_count |-> 0, out_count |-> 0, auxin_count |-> 0, auxout_count |-> 0]

(* CheckNode(busCount): an empty parent list *)
NewCheckNode == [bus_list |-> ArrOf(-1), bus_count |-> 0]

NewBusConfig ==
    [OutInUse |-> FALSE, AuxInUse |-> FALSE, AuxOutInUse |-> FALSE,
     HasParent |-> FALSE, HasChild |-> FALSE, RevPlay |-> -1,
     In_Config |-> NewCheckNode]

(* The bus graph as one value, so that the functions of bus_config.cpp can *)
(* be composed the way bus_config composes them.                           *)
Graph ==
    [BusConfigs |-> BusConfigs, ToOutPlayList |-> ToOutPlayList,
     ToAuxPlayList |-> ToAuxPlayList, AuxToAuxPlayList |-> AuxToAuxPlayList,
     Visited |-> Visited, Inst_Bus_Config |-> Inst_Bus_Config,
     Bus_Config_Status |-> Bus_Config_Status, aux_allocated |-> aux_allocated,
     heapOverflow |-> heapOverflow]

InitGraph ==
    [BusConfigs |-> [b \in Buses |-> NewBusConfig],
     ToOutPlayList |-> ArrOf(-1), ToAuxPlayList |-> ArrOf(-1),
     AuxToAuxPlayList |-> ArrOf(-1),
     Visited |-> [b \in Buses |-> FALSE],
     Inst_Bus_Config |-> << >>,
     Bus_Config_Status |-> FALSE,
     aux_allocated |-> {},
     heapOverflow |-> FALSE]

(* The members of S in increasing order: the order of a for (i=0;i<busCount;i++) scan *)
RECURSIVE Ascending(_)
Ascending(S) ==
    IF S = {} THEN << >>
    ELSE LET m == CHOOSE x \in S : \A y \in S : x <= y
         IN <<m>> \o Ascending(S \ {m})

(* list[0] = s[1], list[1] = s[2], ...: the cells after the last store keep their value *)
RECURSIVE StorePrefix(_, _, _)
StorePrefix(list, s, at) ==
    IF s = << >> THEN list
    ELSE StorePrefix(Put(list, at, Head(s)), Tail(s), at + 1)

(* ------------------- check_bus_inst_config ----------------------------- *)
(* a walk that never follows a bus to its parents *)
RECURSIVE CheckWalk_NoExpand(_, _)
CheckWalk_NoExpand(slot, w) ==
    IF w.qi > Len(w.queue) THEN w
    ELSE LET node == w.queue[w.qi] IN
      IF w.i >= node.bus_count
      THEN CheckWalk_NoExpand(slot, [w EXCEPT !.qi = @ + 1, !.i = 0])
      ELSE
        LET t_in == Get(node.bus_list, w.i)
            loop == /\ ~w.Checked[t_in]
                    /\ \E j \in 0 .. (slot.auxout_count - 1) : Get(slot.auxout, j) = t_in
        IN IF loop THEN [w EXCEPT !.err = "LOOP_ERR"]
           ELSE CheckWalk_NoExpand(slot, [w EXCEPT !.i = @ + 1, !.Checked[t_in] = TRUE])

(* a walk that follows the parents and never reports a loop *)
RECURSIVE CheckWalk_NoLoop(_, _)
CheckWalk_NoLoop(slot, w) ==
    IF w.qi > Len(w.queue) THEN w
    ELSE LET node == w.queue[w.qi] IN
      IF w.i >= node.bus_count
      THEN CheckWalk_NoLoop(slot, [w EXCEPT !.qi = @ + 1, !.i = 0])
      ELSE
        LET t_in == Get(node.bus_list, w.i)
            expand == w.bc[t_in].In_Config.bus_count > 0 /\ ~w.Visited[t_in]
            record == expand /\ w.bc[t_in].HasParent
        IN CheckWalk_NoLoop(slot,
                  [w EXCEPT
                     !.i = @ + 1,
                     !.Checked[t_in] = TRUE,
                     !.Visited[t_in] = IF expand THEN TRUE ELSE @,
                     !.bc = IF record /\ InArr(w.r_p_count)
                            THEN [@ EXCEPT ![w.r_p_count].RevPlay = t_in] ELSE @,
                     !.r_p_count = IF record THEN @ + 1 ELSE @,
                     !.queue = IF expand THEN Append(@, w.bc[t_in].In_Config) ELSE @])

(* The walk of the "to be checked" queue.  w holds the locals of the       *)
(* function: the queue, the node (qi) and entry (i) being looked at,       *)
(* Checked[], r_p_count, and the state written on the way: Visited and     *)
(* BusConfigs[].RevPlay.  A queue node is the list it points at.           *)
RECURSIVE CheckWalk(_, _)
CheckWalk(slot, w) ==
    IF w.qi > Len(w.queue) THEN w
    ELSE LET node == w.queue[w.qi] IN
      IF w.i >= node.bus_count
      THEN CheckWalk(slot, [w EXCEPT !.qi = @ + 1, !.i = 0])
      ELSE
        LET t_in == Get(node.bus_list, w.i)
            loop == /\ ~w.Checked[t_in]
                    /\ \E j \in 0 .. (slot.auxout_count - 1) : Get(slot.auxout, j) = t_in
            expand == w.bc[t_in].In_Config.bus_count > 0 /\ ~w.Visited[t_in]
            record == expand /\ w.bc[t_in].HasParent
        IN IF loop THEN [w EXCEPT !.err = "LOOP_ERR"]
           ELSE CheckWalk(slot,
                  [w EXCEPT
                     !.i = @ + 1,
                     !.Checked[t_in] = TRUE,
                     !.Visited[t_in] = IF expand THEN TRUE ELSE @,
                     !.bc = IF record /\ InArr(w.r_p_count)
                            THEN [@ EXCEPT ![w.r_p_count].RevPlay = t_in] ELSE @,
                     !.r_p_count = IF record THEN @ + 1 ELSE @,
                     !.queue = IF expand THEN Append(@, w.bc[t_in].In_Config) ELSE @])

CheckBusInstConfig(g, slot, visit) ==
    LET \* lines 243-255: the first call allocates the graph array
        bc0 == IF g.Bus_Config_Status THEN g.BusConfigs
               ELSE [b \in Buses |-> [g.BusConfigs[b] EXCEPT !.In_Config = NewCheckNode]]
        \* lines 257-281
        vis0 == IF visit THEN [b \in Buses |-> FALSE] ELSE g.Visited
        bc1 == [b \in Buses |-> [bc0[b] EXCEPT !.RevPlay = -1]]
        toOut == StorePrefix(g.ToOutPlayList, Ascending({b \in Buses : bc1[b].OutInUse}), 0)
        toAux == StorePrefix(g.ToAuxPlayList, Ascending({b \in Buses : bc1[b].AuxOutInUse}), 0)
        \* lines 283-342
        w == CheckWalk(slot,
               [queue |-> <<[bus_list |-> slot.auxin, bus_count |-> slot.auxin_count]>>,
                qi |-> 1, i |-> 0,
                Checked |-> [b \in Buses |-> FALSE],
                Visited |-> vis0, bc |-> bc1, r_p_count |-> 0, err |-> "NO_ERR"])
    IN [err |-> w.err,
        g |-> [g EXCEPT !.BusConfigs = w.bc, !.Visited = w.Visited,
                        !.ToOutPlayList = toOut, !.ToAuxPlayList = toAux,
                        !.Bus_Config_Status = TRUE]]

(* ----------------------- insert_bus_slot ------------------------------- *)
(* lines 369-411: the two nested loops over auxout[i], auxin[j] *)
RECURSIVE InsertGraph(_, _, _, _)
InsertGraph(bc, slot, i, j) ==
    IF i >= slot.auxout_count THEN bc
    ELSE
      LET s_out == Get(slot.auxout, i)
          bcA == [bc EXCEPT ![s_out].AuxInUse = TRUE]
      IN IF j >= slot.auxin_count THEN InsertGraph(bcA, slot, i + 1, 0)
         ELSE
           LET s_in == Get(slot.auxin, j)
               bcP == IF s_in # SENTINEL THEN [bcA EXCEPT ![s_out].HasParent = TRUE] ELSE bcA
               t_in_count == bcP[s_out].In_Config.bus_count
               count1 == t_in_count + 1
               bcL == [bcP EXCEPT
                         ![s_out].In_Config.bus_list = Put(@, t_in_count, s_in),
                         \* the "bus-wrapping hackeroo"
                         ![s_out].In_Config.bus_count =
                             IF count1 >= BusCount THEN 0 ELSE count1]
               bcC == [bcL EXCEPT ![s_in].HasChild = TRUE, ![s_in].AuxInUse = TRUE]
           IN InsertGraph(IF s_in # SENTINEL THEN bcC ELSE bcP, slot, i, j + 1)

(* an insert that queues every slot under a new BusQueue at the end *)
InsertQueue_Append(q, name, slot) == q \o <<[inst_name |-> name, slot |-> <<slot>>]>>

(* lines 413-448: the first BusQueue whose name matches gets the slot as its head *)
RECURSIVE InsertQueue(_, _, _)
InsertQueue(q, name, slot) ==
    IF q = << >> THEN <<[inst_name |-> name, slot |-> <<slot>>]>>
    ELSE IF Head(q).inst_name = name
         THEN \* slot->next = qEntry->slot->next; qEntry->slot = slot
              <<[inst_name |-> name, slot |-> <<slot>> \o Tail(Head(q).slot)]>> \o Tail(q)
         ELSE <<Head(q)>> \o InsertQueue(Tail(q), name, slot)

InsertBusSlot(g, name, slot) ==
    [g EXCEPT !.BusConfigs = InsertGraph(g.BusConfigs, slot, 0, 0),
              !.Inst_Bus_Config = InsertQueue(g.Inst_Bus_Config, name, slot)]

(* -------------------------- bf_traverse -------------------------------- *)
BfTraverse(g, bus, visit) ==
    LET temp == [NewBusSlot(0) EXCEPT
                   !.auxin = Put(@, 0, bus), !.auxin_count = 1,
                   !.auxout = Put(@, 0, SENTINEL), !.auxout_count = 1]
    IN CheckBusInstConfig(g, temp, visit).g

(* ----------------------- create_play_order ----------------------------- *)
(* RevPlay[busCount-1], ..., RevPlay[0], the -1 cells left out (lines 507-519) *)
RECURSIVE RevPlayDown(_, _)
RevPlayDown(bc, j) ==
    IF j < 0 THEN << >>
    ELSE (IF bc[j].RevPlay # -1 THEN <<bc[j].RevPlay>> ELSE << >>) \o RevPlayDown(bc, j - 1)

(* lines 498-524: c holds g, aux_p_count and visit *)
RECURSIVE PlayLeaves(_, _)
PlayLeaves(c, i) ==
    IF i >= BusCount THEN c
    ELSE IF c.g.BusConfigs[i].AuxInUse /\ ~c.g.BusConfigs[i].HasChild
         THEN LET g1 == BfTraverse(c.g, i, c.visit)
                  rev == RevPlayDown(g1.BusConfigs, BusCount - 1)
                  over == c.aux_p_count + Len(rev) > BusCount
              IN PlayLeaves(
                   [g |-> [g1 EXCEPT
                             !.AuxToAuxPlayList = StorePrefix(@, rev, c.aux_p_count),
                             !.heapOverflow = @ \/ over],
                    aux_p_count |-> c.aux_p_count + Len(rev),
                    visit |-> FALSE], i + 1)
         ELSE PlayLeaves(c, i + 1)

CreatePlayOrder(g) ==
    LET roots == Ascending({b \in Buses :
                    g.BusConfigs[b].AuxInUse /\ ~g.BusConfigs[b].HasParent})
        g0 == [g EXCEPT !.AuxToAuxPlayList = StorePrefix(@, roots, 0)]
    IN PlayLeaves([g |-> g0, aux_p_count |-> Len(roots), visit |-> TRUE], 0).g

(* ------------------------- parse_bus_name ------------------------------ *)
(* A bus name is modelled by what parse_bus_name reads from it: its type   *)
(* and the two channel numbers.                                            *)
ParseBusChan(startchan, endchan, maxBus) ==
    IF startchan >= maxBus \/ endchan >= maxBus THEN "INVAL_BUS_CHAN_ERR" ELSE "NO_ERR"

ParseBusName(busname, maxBus) ==
    IF busname.type \in {"BUS_IN", "BUS_OUT", "BUS_AUX_IN", "BUS_AUX_OUT",
                         "BUS_NONE_IN", "BUS_NONE_OUT"}
    THEN ParseBusChan(busname.startchan, busname.endchan, maxBus)
    ELSE "INVAL_BUS_ERR"

(* arr[j++] = k for k = startchan .. endchan *)
RECURSIVE StoreRange(_, _, _, _)
StoreRange(arr, j, k, endchan) ==
    IF k > endchan THEN arr ELSE StoreRange(Put(arr, j, k), j + 1, k + 1, endchan)

(* some store of StoreRange falls outside the array *)
RangeOverflows(j, startchan, endchan) ==
    startchan <= endchan /\ (j < 0 \/ j + (endchan - startchan) >= BusCount)

(* some k of startchan .. endchan is no index of BusConfigs *)
IndexOutside(startchan, endchan) ==
    startchan <= endchan /\ (startchan < 0 \/ endchan >= BusCount)

RangeBuses(startchan, endchan) == {k \in Buses : startchan <= k /\ k <= endchan}

(* ---------------------------- bus_config ------------------------------- *)
(* lines 857-987: the loop over the bus names.  p holds bus_slot,          *)
(* chain_incount, chain_outcount, the BusConfigs flags written so far and  *)
(* the exit code ("NO_ERR" while the loop runs on).                        *)
RECURSIVE ParseArgs(_, _, _)
ParseArgs(names, i, p) ==
    IF i > Len(names) THEN p
    ELSE
      LET busname == names[i]
          s == busname.startchan
          e == busname.endchan
          n == (e - s) + 1
          slot == p.slot
          die == [p EXCEPT !.err = "PARAM_ERROR"]
      IN
      IF ParseBusName(busname, BusCount) # "NO_ERR" THEN die
      ELSE IF busname.type = "BUS_IN" THEN
        IF slot.auxin_count > 0 \/ p.chain_incount > 0 \/ e >= NChans THEN die
        ELSE ParseArgs(names, i + 1,
               [p EXCEPT !.slot.in = StoreRange(@, slot.in_count, s, e),
                         !.slot.in_count = @ + n,
                         !.overflow = @ \/ RangeOverflows(slot.in_count, s, e)])
      ELSE IF busname.type = "BUS_OUT" THEN
        IF slot.auxout_count > 0 \/ p.chain_outcount > 0 \/ e >= NChans THEN die
        ELSE ParseArgs(names, i + 1,
               [p EXCEPT !.slot.out = StoreRange(@, slot.out_count, s, e),
                         !.slot.out_count = @ + n,
                         !.bc = [b \in Buses |->
                                   IF b \in RangeBuses(s, e)
                                   THEN [@[b] EXCEPT !.OutInUse = TRUE] ELSE @[b]],
                         !.overflow = @ \/ RangeOverflows(slot.out_count, s, e)
                                       \/ IndexOutside(s, e)])
      ELSE IF busname.type = "BUS_AUX_IN" THEN
        IF slot.in_count > 0 \/ p.chain_incount > 0 THEN die
        ELSE ParseArgs(names, i + 1,
               [p EXCEPT !.slot.auxin = StoreRange(@, slot.auxin_count, s, e),
                         !.slot.auxin_count = @ + n,
                         !.overflow = @ \/ RangeOverflows(slot.auxin_count, s, e)])
      ELSE IF busname.type = "BUS_AUX_OUT" THEN
        IF slot.out_count > 0 \/ p.chain_outcount > 0 THEN die
        ELSE ParseArgs(names, i + 1,
               [p EXCEPT !.slot.auxout = StoreRange(@, slot.auxout_count, s, e),
                         !.slot.auxout_count = @ + n,
                         !.bc = [b \in Buses |->
                                   IF b \in RangeBuses(s, e)
                                   THEN [@[b] EXCEPT !.AuxOutInUse = TRUE] ELSE @[b]],
                         !.overflow = @ \/ RangeOverflows(slot.auxout_count, s, e)
                                       \/ IndexOutside(s, e)])
      ELSE IF busname.type = "BUS_NONE_IN" THEN
        IF slot.in_count + slot.auxin_count > 0 THEN die
        ELSE ParseArgs(names, i + 1, [p EXCEPT !.chain_incount = @ + n])
      ELSE \* BUS_NONE_OUT
        IF slot.out_count + slot.auxout_count > 0 THEN die
        ELSE ParseArgs(names, i + 1, [p EXCEPT !.chain_outcount = n])

(* lines 998-1002 *)
AllocateAuxBuffers(g, slot) ==
    [g EXCEPT !.aux_allocated =
        @ \cup {Get(slot.auxin, i) : i \in 0 .. (slot.auxin_count - 1)}
          \cup {Get(slot.auxout, i) : i \in 0 .. (slot.auxout_count - 1)}]

(* lines 1008-1009: the chain counts are added to the slot object after it
   has been queued, so they show in the queued slot (the slot with that id) *)
ChainCounted(slot, chain_incount, chain_outcount) ==
    [slot EXCEPT !.auxin_count = @ + chain_incount, !.out_count = @ + chain_outcount]

AddChainCounts(q, id, chain_incount, chain_outcount) ==
    [n \in 1 .. Len(q) |->
       [q[n] EXCEPT !.slot = [m \in 1 .. Len(@) |->
           IF @[m].id = id THEN ChainCounted(@[m], chain_incount, chain_outcount)
           ELSE @[m]]]]

(* The slot holds a number that is no bus.  The rest of bus_config indexes
   BusConfigs, Bus_Config_Status and the check lists with the numbers of the
   slot (lines 263-330, 383-441, 998-1002): with such a number every access
   is outside its array and what the call does from there on is undefined,
   so it is followed no further and its outcome is "UNDEFINED". *)
StoredOutside(slot) ==
    \E n \in 0 .. BusCount - 1 :
       \/ Get(slot.in, n) \notin Buses
       \/ Get(slot.out, n) \notin Buses
       \/ Get(slot.auxin, n) \notin Buses
       \/ Get(slot.auxout, n) \notin Buses

(* bus_config(instname, busname...): the graph it leaves, the slot it built and the
   outcome: "NO_ERR", or what stopped it: "PARAM_ERROR" (n_args < 2, a bad or
   conflicting bus name) or the ErrCode of check_bus_inst_config ("LOOP_ERR"). *)
BusConfigCall(g, id, instname, names) ==
    IF Len(names) < 1 THEN [err |-> "PARAM_ERROR", g |-> g, slot |-> NewBusSlot(id)]
    ELSE
      LET p == ParseArgs(names, 1,
                 [slot |-> NewBusSlot(id), chain_incount |-> 0, chain_outcount |-> 0,
                  bc |-> g.BusConfigs, overflow |-> FALSE, err |-> "NO_ERR"])
          gP == [g EXCEPT !.BusConfigs = p.bc, !.heapOverflow = @ \/ p.overflow]
      IN IF p.err # "NO_ERR" THEN [err |-> p.err, g |-> gP, slot |-> p.slot]
         ELSE IF StoredOutside(p.slot)
         THEN [err |-> "UNDEFINED", g |-> gP, slot |-> p.slot]
         ELSE
           LET chk == CheckBusInstConfig(gP, p.slot, TRUE)
           IN IF chk.err # "NO_ERR" THEN [err |-> chk.err, g |-> chk.g, slot |-> p.slot]
              ELSE
                LET gI == InsertBusSlot(chk.g, instname, p.slot)
                    gA == AllocateAuxBuffers(gI, p.slot)
                    gC == [gA EXCEPT !.Inst_Bus_Config =
                              AddChainCounts(@, id, p.chain_incount, p.chain_outcount)]
                IN [err |-> "NO_ERR", g |-> CreatePlayOrder(gC),
                    slot |-> ChainCounted(p.slot, p.chain_incount, p.chain_outcount)]

(* --------------------------- get_bus_config ---------------------------- *)
(* lines 550-557: the slot of the first BusQueue with that name, if any *)
RECURSIVE FindSlot(_, _)
FindSlot(q, inst_name) ==
    IF q = << >> THEN [found |-> FALSE, slot |-> NewBusSlot(0)]
    ELSE IF Head(q).inst_name = inst_name
         THEN [found |-> TRUE, slot |-> Head(Head(q).slot)]
         ELSE FindSlot(Tail(q), inst_name)

(* the default slot built and returned, but never queued *)
DefaultBusConfig_NoInsert(g, id, inst_name, in_chans) ==
    [err |-> "NO_ERR", g |-> g,
     slot |-> [NewBusSlot(id) EXCEPT
                 !.in_count = in_chans, !.out_count = NChans,
                 !.in = StoreRange(@, 0, 0, in_chans - 1),
                 !.out = StoreRange(@, 0, 0, NChans - 1)]]

(* lines 559-656: the default (in/out) slot for a name without one; in_chans is
   what the input file table or the audio device gives *)
DefaultBusConfig(g, id, inst_name, in_chans) ==
    LET g0 == IF g.Bus_Config_Status THEN g
              ELSE [g EXCEPT
                      !.AuxToAuxPlayList = ArrOf(-1), !.ToAuxPlayList = ArrOf(-1),
                      !.ToOutPlayList = ArrOf(-1),
                      !.BusConfigs = [b \in Buses |->
                          [@[b] EXCEPT !.OutInUse = FALSE, !.In_Config = NewCheckNode]],
                      !.Bus_Config_Status = TRUE]
        chans == {i \in Buses : i < NChans}
        g1 == [g0 EXCEPT
                 !.BusConfigs = [b \in Buses |->
                     IF b \in chans THEN [@[b] EXCEPT !.OutInUse = TRUE] ELSE @[b]],
                 !.ToOutPlayList = [i \in 1 .. BusCount |->
                     IF i - 1 < NChans THEN i - 1 ELSE @[i]]]
        slot == [NewBusSlot(id) EXCEPT
                   !.in_count = in_chans, !.out_count = NChans,
                   !.in = StoreRange(@, 0, 0, in_chans - 1),
                   !.out = StoreRange(@, 0, 0, NChans - 1)]
        chk == CheckBusInstConfig(g1, slot, TRUE)
    IN IF chk.err # "NO_ERR" THEN [err |-> chk.err, g |-> chk.g, slot |-> slot]
       ELSE [err |-> "NO_ERR", g |-> InsertBusSlot(chk.g, inst_name, slot), slot |-> slot]

(* ------------------------------ actions -------------------------------- *)
SetGraph(g) ==
    /\ BusConfigs' = g.BusConfigs
    /\ ToOutPlayList' = g.ToOutPlayList
    /\ ToAuxPlayList' = g.ToAuxPlayList
    /\ AuxToAuxPlayList' = g.AuxToAuxPlayList
    /\ Visited' = g.Visited
    /\ Inst_Bus_Config' = g.Inst_Bus_Config
    /\ Bus_Config_Status' = g.Bus_Config_Status
    /\ aux_allocated' = g.aux_allocated
    /\ heapOverflow' = g.heapOverflow

InitBus ==
    /\ BusConfigs = InitGraph.BusConfigs
    /\ ToOutPlayList = InitGraph.ToOutPlayList
    /\ ToAuxPlayList = InitGraph.ToAuxPlayList
    /\ AuxToAuxPlayList = InitGraph.AuxToAuxPlayList
    /\ Visited = InitGraph.Visited
    /\ Inst_Bus_Config = InitGraph.Inst_Bus_Config
    /\ Bus_Config_Status = InitGraph.Bus_Config_Status
    /\ aux_allocated = InitGraph.aux_allocated
    /\ heapOverflow = InitGraph.heapOverflow
    /\ nCalls = 0
    /\ lastOp = "none"
    /\ lastErr = "NONE"
    /\ lastAccepted = [n \in InstNames |-> 0]
    /\ ret = [inst_name |-> "", slot |-> NewBusSlot(0), synthesized |-> FALSE]
    /\ hist = << >>

(* one call of bus_config, start to finish *)
BusConfigStep(instname, names) ==
    /\ \E r \in {BusConfigCall(Graph, nCalls + 1, instname, names)} :
          /\ SetGraph(r.g)
          /\ lastErr' = r.err
          /\ lastAccepted' = IF r.err = "NO_ERR"
                             THEN [lastAccepted EXCEPT ![instname] = nCalls + 1]
                             ELSE lastAccepted
    /\ nCalls' = nCalls + 1
    /\ lastOp' = "bus_config"
    /\ UNCHANGED ret

BusConfig(instname, names) ==
    BusConfigStep(instname, names) /\ UNCHANGED hist

(* the same call, written down in hist *)
BusConfigRecorded(instname, names) ==
    /\ BusConfigStep(instname, names)
    /\ hist' = Append(hist, [instname |-> instname, names |-> names, err |-> lastErr'])

(* one call of get_bus_config, start to finish *)
GetBusConfig(inst_name, in_chans) ==
    \E f \in {FindSlot(Inst_Bus_Config, inst_name)} :
       IF f.found
       THEN /\ ret' = [inst_name |-> inst_name, slot |-> f.slot, synthesized |-> FALSE]
            /\ lastOp' = "get_bus_config"
            /\ UNCHANGED <<BusConfigs, ToOutPlayList, ToAuxPlayList, AuxToAuxPlayList,
                           Visited, Inst_Bus_Config, Bus_Config_Status, aux_allocated,
                           heapOverflow, nCalls, lastErr, lastAccepted, hist>>
       ELSE /\ \E r \in {DefaultBusConfig(Graph, nCalls + 1, inst_name, in_chans)} :
                  /\ SetGraph(r.g)
                  /\ ret' = [inst_name |-> inst_name, slot |-> r.slot, synthesized |-> TRUE]
            /\ nCalls' = nCalls + 1
            /\ lastOp' = "get_bus_config"
            /\ UNCHANGED <<lastErr, lastAccepted, hist>>

(* ------------------------- the inputs drawn ---------------------------- *)
Bus(type, k) == [type |-> type, startchan |-> k, endchan |-> k]
BusRange(type, a, b) == [type |-> type, startchan |-> a, endchan |-> b]

(* aux-to-aux configurations of one bus each, and a few of other shapes *)
GraphConfigs ==
    {<<Bus("BUS_AUX_IN", j), Bus("BUS_AUX_OUT", k)>> : j \in Buses, k \in Buses}
    \cup {<<Bus("BUS_IN", 0), Bus("BUS_OUT", 0)>>,
          <<Bus("BUS_IN", 0), Bus("BUS_AUX_OUT", 0)>>,
          <<BusRange("BUS_AUX_IN", 0, 1), Bus("BUS_AUX_OUT", BusCount - 1)>>}

(* ============================ bus_slot_lock ============================ *)
Callers == {"t1", "t2"}

NoParse ==
    [slot |-> NewBusSlot(0), chain_incount |-> 0, chain_outcount |-> 0,
     bc |-> InitGraph.BusConfigs, overflow |-> FALSE, err |-> "NO_ERR"]
NoArgs == [instname |-> "", names |-> << >>, id |-> 0]

InitLock ==
    /\ bus_slot_lock = "free"
    /\ pc = [t \in Callers |-> "idle"]
    /\ call = [t \in Callers |-> NoArgs]
    /\ parsed = [t \in Callers |-> NoParse]
    /\ committed = InitGraph

(* an acquire that does not wait for the holder *)
LockAcquire_NoWait(t) == bus_slot_lock' = t

(* Lock lock(&bus_slot_lock): blocks until the mutex is free, then holds it *)
LockAcquire(t) == bus_slot_lock = "free" /\ bus_slot_lock' = t

(* the Lock going out of scope, by return or by RTExit's throw *)
LockRelease(t) == bus_slot_lock' = "free"

Goto(t, where) == pc' = [pc EXCEPT ![t] = where]

(* the call ends: the lock is released and the caller is idle again *)
Return(t, g) ==
    /\ LockRelease(t)
    /\ Goto(t, "idle")
    /\ committed' = g

lockedOut == <<nCalls, lastOp, lastErr, lastAccepted, ret, hist>>

(* lines 821-851: bus_config is entered and builds an empty BusSlot *)
BcCall(t, instname, names) ==
    /\ pc[t] = "idle"
    /\ nCalls < MaxCalls
    /\ nCalls' = nCalls + 1
    /\ call' = [call EXCEPT ![t] = [instname |-> instname, names |-> names, id |-> nCalls + 1]]
    /\ Goto(t, "bc_wait")
    /\ UNCHANGED <<BusConfigs, ToOutPlayList, ToAuxPlayList, AuxToAuxPlayList, Visited,
                   Inst_Bus_Config, Bus_Config_Status, aux_allocated, heapOverflow,
                   lastOp, lastErr, lastAccepted, ret, hist,
                   bus_slot_lock, parsed, committed>>

(* line 852 *)
BcAcquire(t) ==
    /\ pc[t] = "bc_wait"
    /\ LockAcquire(t)
    /\ Goto(t, "bc_parse")
    /\ UNCHANGED <<busVars, call, parsed, committed>>

(* lines 857-987: the loop over the bus names, which sets OutInUse and AuxOutInUse *)
BcParse(t) ==
    /\ pc[t] = "bc_parse"
    /\ \E p \in {ParseArgs(call[t].names, 1,
                   [slot |-> NewBusSlot(call[t].id), chain_incount |-> 0,
                    chain_outcount |-> 0, bc |-> BusConfigs, overflow |-> FALSE,
                    err |-> "NO_ERR"])} :
          /\ BusConfigs' = p.bc
          /\ heapOverflow' = (heapOverflow \/ p.overflow)
          /\ parsed' = [parsed EXCEPT ![t] = p]
          /\ IF p.err # "NO_ERR"
             THEN Return(t, [Graph EXCEPT !.BusConfigs = p.bc,
                                          !.heapOverflow = @ \/ p.overflow])
             ELSE Goto(t, "bc_check") /\ UNCHANGED <<bus_slot_lock, committed>>
    /\ UNCHANGED <<ToOutPlayList, ToAuxPlayList, AuxToAuxPlayList, Visited,
                   Inst_Bus_Config, Bus_Config_Status, aux_allocated, call>>
    /\ UNCHANGED lockedOut

(* lines 989, 993-996 *)
BcCheck(t) ==
    /\ pc[t] = "bc_check"
    /\ \E chk \in {CheckBusInstConfig(Graph, parsed[t].slot, TRUE)} :
          /\ SetGraph(chk.g)
          /\ IF chk.err # "NO_ERR"
             THEN Return(t, chk.g)
             ELSE Goto(t, "bc_insert") /\ UNCHANGED <<bus_slot_lock, committed>>
    /\ UNCHANGED <<call, parsed>>
    /\ UNCHANGED lockedOut

(* line 991 *)
BcInsert(t) ==
    /\ pc[t] = "bc_insert"
    /\ SetGraph(InsertBusSlot(Graph, call[t].instname, parsed[t].slot))
    /\ Goto(t, "bc_alloc")
    /\ UNCHANGED <<bus_slot_lock, call, parsed, committed>>
    /\ UNCHANGED lockedOut

(* lines 998-1009 *)
BcAllocate(t) ==
    /\ pc[t] = "bc_alloc"
    /\ SetGraph([AllocateAuxBuffers(Graph, parsed[t].slot) EXCEPT
                   !.Inst_Bus_Config = AddChainCounts(@, call[t].id,
                                          parsed[t].chain_incount, parsed[t].chain_outcount)])
    /\ Goto(t, "bc_order")
    /\ UNCHANGED <<bus_slot_lock, call, parsed, committed>>
    /\ UNCHANGED lockedOut

(* line 1015 *)
BcOrder(t) ==
    /\ pc[t] = "bc_order"
    /\ SetGraph(CreatePlayOrder(Graph))
    /\ Goto(t, "bc_return")
    /\ UNCHANGED <<bus_slot_lock, call, parsed, committed>>
    /\ UNCHANGED lockedOut

(* lines 1024-1025 *)
BcReturn(t) ==
    /\ pc[t] = "bc_return"
    /\ Return(t, Graph)
    /\ UNCHANGED <<busVars, call, parsed>>

(* lines 532-542: get_bus_config is entered *)
GetCall(t, inst_name) ==
    /\ pc[t] = "idle"
    /\ nCalls < MaxCalls
    /\ call' = [call EXCEPT ![t] = [instname |-> inst_name, names |-> << >>, id |-> 0]]
    /\ Goto(t, "get_wait")
    /\ UNCHANGED <<busVars, bus_slot_lock, parsed, committed>>

(* line 544 *)
GetAcquire(t) ==
    /\ pc[t] = "get_wait"
    /\ LockAcquire(t)
    /\ Goto(t, "get_lookup")
    /\ UNCHANGED <<busVars, call, parsed, committed>>

(* lines 550-557: the lookup, and the return of the slot found *)
GetLookup(t) ==
    /\ pc[t] = "get_lookup"
    /\ \E f \in {FindSlot(Inst_Bus_Config, call[t].instname)} :
          IF f.found
          THEN /\ ret' = [inst_name |-> call[t].instname, slot |-> f.slot,
                          synthesized |-> FALSE]
               /\ Return(t, Graph)
          ELSE /\ Goto(t, "get_default")
               /\ UNCHANGED <<ret, bus_slot_lock, committed>>
    /\ UNCHANGED <<BusConfigs, ToOutPlayList, ToAuxPlayList, AuxToAuxPlayList, Visited,
                   Inst_Bus_Config, Bus_Config_Status, aux_allocated, heapOverflow,
                   nCalls, lastOp, lastErr, lastAccepted, hist, call, parsed>>

(* lines 559-656: the default slot, and its return *)
GetDefault(t) ==
    /\ pc[t] = "get_default"
    /\ \E r \in {DefaultBusConfig(Graph, nCalls + 1, call[t].instname, 0)} :
          /\ SetGraph(r.g)
          /\ ret' = [inst_name |-> call[t].instname, slot |-> r.slot, synthesized |-> TRUE]
          /\ Return(t, r.g)
    /\ nCalls' = nCalls + 1
    /\ UNCHANGED <<lastOp, lastErr, lastAccepted, hist, call, parsed>>

(* ============================== the mixer ============================== *)
(* the channel counts of the instruments' interleaved outputs: mono and stereo *)
ChanCounts == {1, 2}
MaxChans == CHOOSE c \in ChanCounts : \A d \in ChanCounts : d <= c

Frames == 0 .. (BufSamps - 1)
Threads == 0 .. (RT_THREAD_COUNT - 1)

RECURSIVE Pow4(_)
Pow4(n) == IF n = 0 THEN 1 ELSE 4 * Pow4(n - 1)

(* An instrument's interleaved output buffer.  Sample i is 4^i, so that (in
   exact arithmetic) a sum of up to three samples tells which samples they are.
   A BufPtr src is an index into it. *)
SrcLen == BufSamps * MaxChans
Sample(i) == IF i >= 0 /\ i < SrcLen THEN Pow4(i) ELSE 0

(* the bus buffers as one value: b.out[bus][frame+1], b.aux[bus][frame+1] *)
Buffers == [out |-> out_buffer, aux |-> aux_buffer]
ZeroBuffers == [out |-> [b \in Buses |-> [f \in 1 .. BufSamps |-> 0]],
                aux |-> [b \in Buses |-> [f \in 1 .. BufSamps |-> 0]]]

(* dest[frame] += v, dest being aux_buffer[bus] or out_buffer[bus] *)
AddSample(b, type, bus, frame, v) ==
    IF frame < 0 \/ frame >= BufSamps THEN b
    ELSE IF type = "BUS_AUX_OUT"
         THEN [b EXCEPT !.aux[bus][frame + 1] = @ + v]
         ELSE [b EXCEPT !.out[bus][frame + 1] = @ + v]

(* ------------------- addToBus, single-threaded build ------------------- *)
(* a frame loop that advances src by one sample instead of one frame *)
RECURSIVE AddLoop_SrcByOne(_, _, _, _, _, _, _)
AddLoop_SrcByOne(b, type, bus, frame, endfr, src, chans) ==
    IF frame >= endfr THEN b
    ELSE AddLoop_SrcByOne(AddSample(b, type, bus, frame, Sample(src)),
                          type, bus, frame + 1, endfr, src + 1, chans)

(* lines 732-735: for (frame = offset; frame < endfr; frame++) { dest[frame] += *src; src += chans; } *)
RECURSIVE AddLoop(_, _, _, _, _, _, _)
AddLoop(b, type, bus, frame, endfr, src, chans) ==
    IF frame >= endfr THEN b
    ELSE AddLoop(AddSample(b, type, bus, frame, Sample(src)),
                 type, bus, frame + 1, endfr, src + chans, chans)

AddToBusST(b, c) == AddLoop(b, c.type, c.bus, c.offset, c.endfr, c.src, c.chans)

(* ------------------- addToBus, multi-threaded build -------------------- *)
(* lines 669-675: the MixData record; dest is the address buffer[bus] + offset *)
MixData(c) ==
    [src |-> c.src,
     dest |-> [type |-> c.type, bus |-> c.bus, at |-> c.offset],
     frames |-> c.endfr - c.offset,
     channels |-> c.chans]

AddToBusMT(vectors, t, c) == [vectors EXCEPT ![t] = Append(@, MixData(c))]

(* lines 690-697: four frames at a time *)
RECURSIVE MixByFour(_, _, _, _, _, _)
MixByFour(b, m, dest, src, n, framesOverFour) ==
    IF n >= framesOverFour
    THEN [b |-> b, dest |-> dest, src |-> src]
    ELSE
      LET chans == m.channels
          chansx2 == 2 * chans
          chansx3 == chansx2 + chans
          chansx4 == chansx2 + chansx2
          b0 == AddSample(b, m.dest.type, m.dest.bus, dest, Sample(src))
          b1 == AddSample(b0, m.dest.type, m.dest.bus, dest + 1, Sample(src + chans))
          b2 == AddSample(b1, m.dest.type, m.dest.bus, dest + 2, Sample(src + chansx2))
          b3 == AddSample(b2, m.dest.type, m.dest.bus, dest + 3, Sample(src + chansx3))
      IN MixByFour(b3, m, dest + 4, src + chansx4, n + 1, framesOverFour)

(* a mixOperation without the loop over the frames left over *)
MixRemaining_Skipped(b, m, dest, src, n, framesRemaining) == b

(* lines 698-701: the frames left over *)
RECURSIVE MixRemaining(_, _, _, _, _, _)
MixRemaining(b, m, dest, src, n, framesRemaining) ==
    IF n >= framesRemaining THEN b
    ELSE MixRemaining(AddSample(b, m.dest.type, m.dest.bus, dest + n, Sample(src)),
                      m, dest, src + m.channels, n + 1, framesRemaining)

(* x >> 2 and x << 2 on int *)
ShiftRight2(x) == x \div 4
ShiftLeft2(x) == x * 4

MixOperation(b, m) ==
    LET framesOverFour == ShiftRight2(m.frames)
        framesRemaining == m.frames - ShiftLeft2(framesOverFour)
        four == MixByFour(b, m, m.dest.at, m.src, 0, framesOverFour)
    IN MixRemaining(four.b, m, four.dest, four.src, 0, framesRemaining)

(* std::for_each(vector.begin(), vector.end(), mixOperation) *)
RECURSIVE ForEachMix(_, _)
ForEachMix(r, vector) ==
    IF vector = << >> THEN r
    ELSE ForEachMix([b |-> MixOperation(r.b, Head(vector)),
                     log |-> Append(r.log, Head(vector))], Tail(vector))

(* a mixToBus that applies the vectors and does not clear them *)
RECURSIVE MixToBusFrom_NoClear(_, _)
MixToBusFrom_NoClear(r, i) ==
    IF i >= RT_THREAD_COUNT THEN r
    ELSE LET done == ForEachMix([b |-> r.b, log |-> r.log], r.vectors[i])
         IN MixToBusFrom_NoClear([b |-> done.b, log |-> done.log,
                                  vectors |-> r.vectors], i + 1)

(* lines 708-712: for (i = 0; i < RT_THREAD_COUNT; ++i) { for_each; vector.clear(); } *)
RECURSIVE MixToBusFrom(_, _)
MixToBusFrom(r, i) ==
    IF i >= RT_THREAD_COUNT THEN r
    ELSE LET done == ForEachMix([b |-> r.b, log |-> r.log], r.vectors[i])
         IN MixToBusFrom([b |-> done.b, log |-> done.log,
                          vectors |-> [r.vectors EXCEPT ![i] = << >>]], i + 1)

MixToBusOp(b, vectors) == MixToBusFrom([b |-> b, log |-> << >>, vectors |-> vectors], 0)

(* ------------------------------ actions -------------------------------- *)
NoCall == [type |-> "NONE", bus |-> 0, src |-> 0, offset |-> 0, endfr |-> 0, chans |-> 1]

InitMix ==
    /\ out_buffer = ZeroBuffers.out
    /\ aux_buffer = ZeroBuffers.aux
    /\ mixVectors = [t \in Threads |-> << >>]
    /\ mixLog = << >>
    /\ mixCall = NoCall
    /\ stBuffers = ZeroBuffers
    /\ nAdds = 0

(* an instrument calls addToBus, single-threaded build *)
AddToBusSingle(c) ==
    /\ \E b \in {AddToBusST(Buffers, c)} :
          /\ out_buffer' = b.out
          /\ aux_buffer' = b.aux
          /\ stBuffers' = b
    /\ mixCall' = c
    /\ nAdds' = nAdds + 1
    /\ UNCHANGED <<mixVectors, mixLog>>

(* the instrument run by worker thread t calls addToBus, multi-threaded build *)
AddToBusWorker(t, c) ==
    /\ mixVectors' = AddToBusMT(mixVectors, t, c)
    /\ stBuffers' = AddToBusST(stBuffers, c)
    /\ mixCall' = c
    /\ nAdds' = nAdds + 1
    /\ UNCHANGED <<out_buffer, aux_buffer, mixLog>>

(* the main thread, after the barrier, calls mixToBus *)
MixToBus ==
    /\ \E r \in {MixToBusOp(Buffers, mixVectors)} :
          /\ out_buffer' = r.b.out
          /\ aux_buffer' = r.b.aux
          /\ mixVectors' = r.vectors
          /\ mixLog' = r.log
    /\ UNCHANGED <<mixCall, stBuffers, nAdds>>

(* ------------------------- the inputs drawn ---------------------------- *)
(* addToBus calls as Instrument::addout makes them: 0 <= offset <= endfr <= bufsamps(),
   src the address of a channel of the interleaved output *)
MixDests ==
    {[type |-> "BUS_OUT", bus |-> 0], [type |-> "BUS_AUX_OUT", bus |-> 0],
     [type |-> "BUS_AUX_OUT", bus |-> BusCount - 1]}

AllAddCalls ==
    {[type |-> d.type, bus |-> d.bus, src |-> s, offset |-> o, endfr |-> e, chans |-> ch] :
        d \in MixDests, s \in 0 .. (MaxChans - 1), o \in 0 .. BufSamps,
        e \in 0 .. BufSamps, ch \in ChanCounts}

(* the first call of a behaviour is any call; the later ones are stereo calls to
   aux bus 0 that end with the block *)
AddCalls ==
    IF nAdds = 0
    THEN {c \in AllAddCalls : c.src < c.chans /\ c.offset <= c.endfr}
    ELSE {c \in AllAddCalls :
             /\ c.type = "BUS_AUX_OUT" /\ c.bus = 0 /\ c.chans = MaxChans
             /\ c.src = MaxChans - 1 /\ c.offset <= 1 /\ c.endfr = BufSamps}

(* ======================= the Minc interpreter ========================== *)
(* src/src/parser/minc/Node.cpp.  One record, minc, holds the file statics *)
(* of Node.cpp, the symbol table and the heap of lists and structs; every   *)
(* exct() is an operator from a node and that record to the record after.   *)
(* A C++ exception in flight is the field exc: "none", "ret" (the Node      *)
(* thrown by NodeRet) or "error" (anything else).                           *)

(* ---------------------- the score the model runs ------------------------ *)
(* A Node is a record; kind is its class.  Lists of NodeListElem and of     *)
(* NodeArgListElem, chained through child(0) in the program, are sequences. *)
(* A MincFunction is [name, args, body, isMethod]: args the NodeDecl of the *)
(* declared arguments, body the NodeFuncBodySeq.                            *)
(*                                                                          *)
(* The functions the score has defined before its statements run:           *)
(*  function f0() { return 7 }                                              *)
(*  function f1(float x) { return x }                                       *)
(*  function f2(float x, list y) { return x }                               *)
(*  function deep() { if (1) { while (1) { { return 3 } } } return 0 }      *)
(*  function fall() { { float t } 5 }        the body ends without a Ret    *)
(*  function rec() { return rec() }                                         *)
(*  function bad() { bus_config(); return 0 }    the builtin reports an error *)
(*  function setx() { x = 5; return 9 }                                     *)
(*  struct P { float x }                                                    *)
(*  function P.get() { return this.x }                                      *)
(*  function P.pick(float y) { return this.x }                              *)
Score ==
    LET Constf(x) == [kind |-> "NodeConstf", val |-> x]
        LoadSym(name) == [kind |-> "NodeLoadSym", name |-> name]
        AutoDeclLoadSym(name) == [kind |-> "NodeAutoDeclLoadSym", name |-> name]
        LoadFuncSym(name) == [kind |-> "NodeLoadFuncSym", name |-> name]
        List(elems) == [kind |-> "NodeList", elems |-> elems]
        Call(target, args) == [kind |-> "NodeCall", target |-> target, args |-> args]
        Store(lhs, rhs) == [kind |-> "NodeStore", lhs |-> lhs, rhs |-> rhs]
        SubscriptWrite(obj, index, exp) ==
            [kind |-> "NodeSubscriptWrite", obj |-> obj, index |-> index, exp |-> exp]
        MemberAccess(obj, member) ==
            [kind |-> "NodeMemberAccess", obj |-> obj, member |-> member]
        Ret(exp) == [kind |-> "NodeRet", exp |-> exp]
        Block(body) == [kind |-> "NodeBlock", body |-> body]
        Seq2(a, b) == [kind |-> "NodeSeq", a |-> a, b |-> b]
        If(cond, body) == [kind |-> "NodeIf", cond |-> cond, body |-> body]
        While(cond, body) == [kind |-> "NodeWhile", cond |-> cond, body |-> body]
        FuncBodySeq(body, r) == [kind |-> "NodeFuncBodySeq", body |-> body, ret |-> r]
        Decl(name, type) == [kind |-> "NodeDecl", name |-> name, type |-> type]
        NoOp == [kind |-> "NodeNoop"]
        MincFunction(name, args, body, isMethod) ==
            [name |-> name, args |-> args, body |-> body, isMethod |-> isMethod]
        CallF(name, args) == Call(LoadFuncSym(name), args)
        CallM(obj, method, args) == Call(MemberAccess(LoadSym(obj), method), args)
    IN [functions |->
          << MincFunction("f0", <<>>, FuncBodySeq(NoOp, Ret(Constf(7))), FALSE),
             MincFunction("f1", <<Decl("x", "float")>>, FuncBodySeq(NoOp, Ret(LoadSym("x"))), FALSE),
             MincFunction("f2", <<Decl("x", "float"), Decl("y", "list")>>,
                          FuncBodySeq(NoOp, Ret(LoadSym("x"))), FALSE),
             MincFunction("deep", <<>>,
                          FuncBodySeq(If(Constf(1),
                                         Block(While(Constf(1), Block(Block(Ret(Constf(3))))))),
                                      Ret(Constf(0))), FALSE),
             MincFunction("fall", <<>>, FuncBodySeq(Block(Decl("t", "float")), Constf(5)), FALSE),
             MincFunction("rec", <<>>, FuncBodySeq(NoOp, Ret(CallF("rec", <<>>))), FALSE),
             MincFunction("bad", <<>>,
                          FuncBodySeq(CallF("bus_config", <<>>), Ret(Constf(0))), FALSE),
             MincFunction("setx", <<>>,
                          FuncBodySeq(Seq2(NoOp, Store(AutoDeclLoadSym("x"), Constf(5))),
                                      Ret(Constf(9))), FALSE),
             MincFunction("P.get", <<>>,
                          FuncBodySeq(NoOp, Ret(MemberAccess(LoadSym("this"), "x"))), TRUE),
             MincFunction("P.pick", <<Decl("y", "float")>>,
                          FuncBodySeq(NoOp, Ret(MemberAccess(LoadSym("this"), "x"))), TRUE) >>,
        statements |->
          << CallF("f0", <<>>),                                       \* 1  f0()
             CallF("deep", <<>>),                                     \* 2  deep()
             CallF("fall", <<>>),                                     \* 3  fall()
             Block(CallF("deep", <<>>)),                              \* 4  { deep() }
             CallF("f1", <<Constf(1)>>),                              \* 5  f1(1)
             CallF("f1", <<>>),                                       \* 6  f1()
             CallF("f1", <<Constf(1), Constf(2)>>),                   \* 7  f1(1, 2)
             CallF("f0", <<Constf(1)>>),                              \* 8  f0(1)
             CallF("f2", <<Constf(4)>>),                              \* 9  f2(4)
             CallF("f2", <<Constf(4), List(<<Constf(1)>>)>>),         \* 10 f2(4, {1})
             CallF("f2", <<List(<<Constf(1)>>), Constf(4)>>),         \* 11 f2({1}, 4)
             CallF("rec", <<>>),                                      \* 12 rec()
             CallF("bad", <<>>),                                      \* 13 bad()
             CallF("f1", <<CallF("f0", <<>>)>>),                      \* 14 f1(f0())
             CallM("p", "get", <<>>),                                 \* 15 p.get()
             CallM("p", "pick", <<CallM("q", "get", <<>>)>>),         \* 16 p.pick(q.get())
             CallM("q", "pick", <<CallM("p", "get", <<>>)>>),         \* 17 q.pick(p.get())
             Block(Block(CallF("f1", <<CallF("f1", <<Constf(2)>>)>>))), \* 18 { { f1(f1(2)) } }
             CallM("p", "get", <<Constf(1)>>),                        \* 19 p.get(1)
             Store(AutoDeclLoadSym("x"), CallF("setx", <<>>)),        \* 20 x = setx()
             Store(AutoDeclLoadSym("x"), Constf(3)),                  \* 21 x = 3
             Decl("a", "list"),                                       \* 22 list a
             Store(AutoDeclLoadSym("b"), LoadSym("a")),               \* 23 b = a
             Store(AutoDeclLoadSym("a"), List(<<>>)),                 \* 24 a = {}
             Store(AutoDeclLoadSym("a"), List(<<Constf(1), Constf(2)>>)),  \* 25 a = {1, 2}
             SubscriptWrite(LoadSym("a"), Constf(0), Constf(1)),      \* 26 a[0] = 1
             SubscriptWrite(LoadSym("a"), Constf(3), Constf(7)),      \* 27 a[3] = 7
             SubscriptWrite(LoadSym("a"), Constf(-1), Constf(9)),     \* 28 a[-1] = 9
             SubscriptWrite(LoadSym("b"), Constf(2), Constf(8)),      \* 29 b[2] = 8
             Store(AutoDeclLoadSym("y"), LoadSym("x")) >>]            \* 30 y = x

Functions == Score.functions
Programs == Score.statements
FunctionIndex(name) == CHOOSE f \in 1 .. Len(Functions) : Functions[f].name = name

(* the statements that are calls, and those that store and write lists *)
CallStatements == 1 .. 19
ListStatements == 20 .. 30

(* The builtin table: print succeeds; bus_config, called with no arguments, *)
(* reports an error.                                                        *)
Builtins == << [name |-> "print", result |-> 0], [name |-> "bus_config", result |-> -1] >>
BuiltinIndex(name) ==
    IF \E b \in 1 .. Len(Builtins) : Builtins[b].name = name
    THEN CHOOSE b \in 1 .. Len(Builtins) : Builtins[b].name = name
    ELSE 0

(* the mangled name of a method *)
methodNameFromStructAndFunction(structName, functionName) ==
    CASE structName = "P" /\ functionName = "get" -> "P.get"
      [] structName = "P" /\ functionName = "pick" -> "P.pick"
      [] OTHER -> "no such method"

(* MincWarningLevel, in the order of the enumeration *)
MincNoDefaultedArgWarnings == 1
MincAllWarnings == 2

(* ------------------------------ MincValue ------------------------------ *)
MincVoid == [type |-> "void", val |-> 0]
MincFloat(x) == [type |-> "float", val |-> x]
MincListValue(ref) == [type |-> "list", val |-> ref]        \* ref 0: a NULL MincList *
MincStructValue(ref) == [type |-> "struct", val |-> ref]
MincFunctionValue(f) == [type |-> "function", val |-> f]    \* index into Functions
MincStringValue(b) == [type |-> "string", val |-> b]        \* index into Builtins

(* MincValue(type): the value a declaration gives a new symbol *)
NewValue(type) ==
    CASE type = "float" -> MincFloat(0)
      [] type = "list" -> MincListValue(0)
      [] type = "struct" -> MincStructValue(0)
      [] OTHER -> MincVoid

(* MincValue::zero(): the zero value of the same data type *)
ZeroValue(v) == NewValue(v.type)

(* ------------------------------ diagnostics ----------------------------- *)
(* minc_die: a fatal diagnostic; it does not return to the node that called *)
(* it, the error leaves through every exct() on the way up.                  *)
minc_die(s, msg) == [s EXCEPT !.exc = "error", !.died = msg]
minc_warn(s, msg) == [s EXCEPT !.warnings = Append(@, msg)]

(* ----------------------------- symbol table ---------------------------- *)
(* A scope is the sequence of its symbols, [name, value].  The global scope *)
(* is minc.globals, scope 0; minc.scopes are the scopes above it on the     *)
(* current scope stack; minc.callStack holds the scope stacks of the        *)
(* callers, set aside by push_function_stack.  A Symbol* is [scope, name].  *)
NoSymbol == [scope |-> -1, name |-> "", struct |-> 0]
TableSymbol(level, name) == [scope |-> level, name |-> name, struct |-> 0]
MemberSymbol(ref, name) == [scope |-> -2, name |-> name, struct |-> ref]

FindSym(scope, name) ==
    IF \E i \in 1 .. Len(scope) : scope[i].name = name
    THEN CHOOSE i \in 1 .. Len(scope) : scope[i].name = name
    ELSE 0

current_scope(s) == Len(s.scopes)

ScopeAt(s, level) == IF level = 0 THEN s.globals ELSE s.scopes[level]

(* lookupSymbol(name, AnyLevel): innermost scope first, the global scope last *)
lookupSymbol(s, name) ==
    LET found == {l \in 0 .. current_scope(s) : FindSym(ScopeAt(s, l), name) # 0}
    IN IF found = {} THEN NoSymbol
       ELSE TableSymbol(CHOOSE l \in found : \A m \in found : m <= l, name)

(* lookupSymbol(name, ThisLevel) *)
lookupSymbolThisLevel(s, name) ==
    IF FindSym(ScopeAt(s, current_scope(s)), name) # 0
    THEN TableSymbol(current_scope(s), name)
    ELSE NoSymbol

(* the scope a Symbol* points into, scopes being the stack it was found on *)
SymbolScope(s, scopes, sym) ==
    IF sym.struct # 0 THEN s.structs[sym.struct].members
    ELSE IF sym.scope = 0 THEN s.globals ELSE scopes[sym.scope]

SymbolValueIn(s, scopes, sym) ==
    LET scope == SymbolScope(s, scopes, sym) IN scope[FindSym(scope, sym.name)].value

SymbolValue(s, sym) == SymbolValueIn(s, s.scopes, sym)

SetSymbolValue(s, sym, v) ==
    LET scope == SymbolScope(s, s.scopes, sym)
        new == [scope EXCEPT ![FindSym(scope, sym.name)].value = v]
    IN IF sym.struct # 0 THEN [s EXCEPT !.structs[sym.struct].members = new]
       ELSE IF sym.scope = 0 THEN [s EXCEPT !.globals = new]
       ELSE [s EXCEPT !.scopes[sym.scope] = new]

(* lookupOrAutodeclare: the symbol found, or a new one in the current scope *)
lookupOrAutodeclare(s, name) ==
    IF lookupSymbol(s, name) # NoSymbol THEN s
    ELSE IF current_scope(s) = 0
         THEN [s EXCEPT !.globals = Append(@, [name |-> name, value |-> MincVoid])]
         ELSE [s EXCEPT !.scopes[current_scope(s)] = Append(@, [name |-> name, value |-> MincVoid])]

(* Symbol::copyValue(Node, allowTypeOverwrite) *)
SymbolCopyValue(s, sym, v, allowTypeOverwrite) ==
    LET old == SymbolValue(s, sym)
    IN IF old.type # "void" /\ old.type # v.type
       THEN IF allowTypeOverwrite
            THEN SetSymbolValue(minc_warn(s, "Overwriting variable"), sym, v)
            ELSE minc_die(s, "Cannot overwrite")
       ELSE SetSymbolValue(s, sym, v)

(* installSymbol(name, NO): a new symbol in the current scope *)
installSymbol(s, name, v) ==
    LET entry == [name |-> name, value |-> v]
    IN IF current_scope(s) = 0 THEN [s EXCEPT !.globals = Append(@, entry)]
       ELSE [s EXCEPT !.scopes[current_scope(s)] = Append(@, entry)]

push_scope(s) == [s EXCEPT !.scopes = Append(@, <<>>)]
pop_scope(s) == [s EXCEPT !.scopes = SubSeq(@, 1, Len(@) - 1)]
restore_scope(s, savedScope) == [s EXCEPT !.scopes = SubSeq(@, 1, savedScope)]

(* push_function_stack: the caller's scope stack is set aside and the callee *)
(* starts on a stack that holds the global scope only; pop_function_stack    *)
(* drops the callee's stack and makes the caller's current again.            *)
push_function_stack(s) == [s EXCEPT !.callStack = Append(@, s.scopes), !.scopes = <<>>]
pop_function_stack(s) ==
    [s EXCEPT !.scopes = s.callStack[Len(s.callStack)],
              !.callStack = SubSeq(@, 1, Len(@) - 1)]

(* ------------------------ push_list / pop_list -------------------------- *)
(* list_stack and list_len_stack are arrays of MAXSTACK cells, index 0 at   *)
(* TLA+ index 1.  A store or a load at another index is recorded in         *)
(* list_stack_range: the cell it would hit is not part of the arrays.       *)
NoList == <<>>
InListStack(i) == 0 <= i /\ i < MAXSTACK

(* the stores of push_list after its check *)
PushListStore(s) ==
    LET p == s.list_stack_ptr
        t == IF InListStack(p)
             THEN [s EXCEPT !.list_stack[p + 1] = s.sMincList,
                            !.list_len_stack[p + 1] = s.sMincListLen]
             ELSE [s EXCEPT !.list_stack_range = FALSE]
    IN [t EXCEPT !.list_stack_ptr = p + 1, !.sMincList = NoList, !.sMincListLen = 0]

(* mutant of push_list: the check lets depth MAXSTACK through *)
push_list_OffByOne(s) ==
    IF s.list_stack_ptr > MAXSTACK
    THEN minc_die(s, "stack overflow")
    ELSE PushListStore(s)

push_list(s) ==
    IF s.list_stack_ptr >= MAXSTACK
    THEN minc_die(s, "stack overflow")
    ELSE PushListStore(s)

(* mutant of pop_list: the length of the list popped is kept *)
pop_list_LenKept(s) ==
    IF s.list_stack_ptr = 0
    THEN minc_die(s, "stack underflow")
    ELSE LET p == s.list_stack_ptr - 1
         IN IF InListStack(p)
            THEN [s EXCEPT !.list_stack_ptr = p,
                           !.sMincList = s.list_stack[p + 1]]
            ELSE [s EXCEPT !.list_stack_ptr = p, !.list_stack_range = FALSE,
                           !.sMincList = NoList, !.sMincListLen = 0]

pop_list(s) ==
    IF s.list_stack_ptr = 0
    THEN minc_die(s, "stack underflow")
    ELSE LET p == s.list_stack_ptr - 1
         IN IF InListStack(p)
            THEN [s EXCEPT !.list_stack_ptr = p,
                           !.sMincList = s.list_stack[p + 1],
                           !.sMincListLen = s.list_len_stack[p + 1]]
            ELSE [s EXCEPT !.list_stack_ptr = p, !.list_stack_range = FALSE,
                           !.sMincList = NoList, !.sMincListLen = 0]

RECURSIVE exct(_, _)

Raised(s) == s.exc # "none"

(* ------------------------- loads of symbols ----------------------------- *)
NodeConstf(n, s) == [s EXCEPT !.v = MincFloat(n.val), !.sym = NoSymbol]

(* NodeLoadSym::finishExct; the trace notes the node, the name and the scope *)
(* the symbol was found in.                                                  *)
finishExct(s, sym, kind, name) ==
    LET t == [s EXCEPT !.trace = Append(@, <<kind, name, sym.scope>>)]
    IN IF sym # NoSymbol
       THEN [t EXCEPT !.v = SymbolValue(s, sym), !.sym = sym]
       ELSE minc_die(t, "is not declared")

NodeLoadSym(n, s) == finishExct(s, lookupSymbol(s, n.name), "NodeLoadSym", n.name)

NodeAutoDeclLoadSym(n, s) ==
    LET t == lookupOrAutodeclare(s, n.name)
    IN finishExct(t, lookupSymbol(t, n.name), "NodeAutoDeclLoadSym", n.name)

(* NodeLoadFuncSym::finishExct: with no symbol the name is kept, as a string, *)
(* for the builtin table.                                                     *)
NodeLoadFuncSym(n, s) ==
    LET sym == lookupSymbol(s, n.name)
        t == [s EXCEPT !.trace = Append(@, <<"NodeLoadFuncSym", n.name, sym.scope>>)]
    IN IF sym # NoSymbol
       THEN [t EXCEPT !.v = SymbolValue(s, sym), !.sym = sym]
       ELSE [t EXCEPT !.v = MincStringValue(BuiltinIndex(n.name)), !.sym = NoSymbol]

(* NodeDecl::doExct *)
NodeDecl(n, s) ==
    LET sym == IF s.inCalledFunctionArgList THEN lookupSymbolThisLevel(s, n.name)
               ELSE lookupSymbol(s, n.name)
        here == TableSymbol(current_scope(s), n.name)
    IN IF sym = NoSymbol
       THEN [installSymbol(s, n.name, NewValue(n.type)) EXCEPT !.sym = here, !.v = MincVoid]
       ELSE IF sym.scope = current_scope(s)
            THEN IF s.inCalledFunctionArgList
                 THEN minc_die(s, "argument variable already used")
                 ELSE [minc_warn(s, "variable redefined") EXCEPT !.sym = sym, !.v = MincVoid]
            ELSE LET w == IF s.sFunctionCallDepth <= 0 /\ ~s.inCalledFunctionArgList
                          THEN minc_warn(s, "variable also defined at enclosing scope")
                          ELSE s
                 IN [installSymbol(w, n.name, NewValue(n.type)) EXCEPT !.sym = here, !.v = MincVoid]

(* ------------------------------ NodeList -------------------------------- *)
(* new MincList(len): a list object of len empty slots on the heap *)
NewMincList(s, data) == [s EXCEPT !.lists = Append(@, data)]
EmptySlots(len) == [i \in 1 .. len |-> MincVoid]

RECURSIVE NodeListElem(_, _, _)
NodeListElem(elems, k, s) ==
    IF k = 0 THEN s
    ELSE LET s1 == NodeListElem(elems, k - 1, s)
         IN IF Raised(s1) THEN s1
            ELSE IF s1.sMincListLen = MAXDISPARGS
            THEN minc_die(s1, "exceeded maximum number of items for a list")
            ELSE LET s2 == exct(elems[k], s1)
                 IN IF Raised(s2) THEN s2
                    ELSE [s2 EXCEPT !.sMincList = Append(@, s2.v),
                                    !.sMincListLen = @ + 1]

NodeList(n, s) ==
    LET s1 == push_list(s)
    IN IF Raised(s1) THEN s1
       ELSE LET s2 == NodeListElem(n.elems, Len(n.elems), s1)
            IN IF Raised(s2) THEN s2
               ELSE LET s3 == NewMincList(s2, SubSeq(s2.sMincList, 1, s2.sMincListLen))
                        s4 == pop_list(s3)
                    IN IF Raised(s4) THEN s4
                       ELSE [s4 EXCEPT !.v = MincListValue(Len(s3.lists)), !.sym = NoSymbol]

(* ------------------------------ NodeStore ------------------------------- *)
(* the copies that follow the two evaluations; the trace notes the store *)
StoreCopy(s, rhs) ==
    LET t == SymbolCopyValue(s, s.sym, rhs, TRUE)
    IN IF Raised(t) THEN t
       ELSE [t EXCEPT !.v = rhs,
                      !.trace = Append(@, <<"store", s.sym.name,
                                            IF rhs.type = "float" THEN rhs.val ELSE -1>>)]

(* mutant of NodeStore: the order of ORIGINAL_CODE, left-hand side first *)
NodeStore_LhsFirst(n, s) ==
    LET s1 == exct(n.lhs, s)
    IN IF Raised(s1) THEN s1
       ELSE LET s2 == exct(n.rhs, s1)
            IN IF Raised(s2) THEN s2
               ELSE StoreCopy([s2 EXCEPT !.sym = s1.sym], s2.v)

NodeStore(n, s) ==
    LET s1 == exct(n.rhs, s)
    IN IF Raised(s1) THEN s1
       ELSE LET s2 == exct(n.lhs, s1)
            IN IF Raised(s2) THEN s2
               ELSE StoreCopy(s2, s1.v)

(* -------------------------- NodeSubscriptWrite -------------------------- *)
(* MincList::resize(len): the same list object, its elements kept *)
MincListResize(data, len) ==
    [i \in 1 .. len |-> IF i <= Len(data) THEN data[i] ELSE MincVoid]

(* mutant of writeToSubscript: index + 1 new slots whatever the length was *)
writeToSubscript_GrowByIndex(s, sym, indexValue, exp) ==
    LET ref == SymbolValue(s, sym).val
        len == IF ref # 0 THEN Len(s.lists[ref]) ELSE 0
        index == IF indexValue.val < 0 THEN (IF len > 0 THEN len - 1 ELSE 0) ELSE indexValue.val
        newlen == IF index >= len THEN len + index + 1 ELSE len
        t == IF ref = 0
             THEN LET a == NewMincList(s, EmptySlots(newlen))
                  IN SetSymbolValue(a, sym, MincListValue(Len(a.lists)))
             ELSE [s EXCEPT !.lists[ref] = MincListResize(@, newlen)]
    IN [t EXCEPT !.lists[SymbolValue(t, sym).val][index + 1] = exp]

writeToSubscript(s, sym, indexValue, exp) ==
    IF indexValue.type # "float" THEN minc_die(s, "list index must be a number")
    ELSE
    LET ref == SymbolValue(s, sym).val
        len == IF ref # 0 THEN Len(s.lists[ref]) ELSE 0
        w == IF indexValue.val <= -2 THEN minc_warn(s, "negative index") ELSE s
        index == IF indexValue.val < 0 THEN (IF len > 0 THEN len - 1 ELSE 0) ELSE indexValue.val
        newslots == IF len > 0 THEN index - (len - 1) ELSE index + 1
        newlen == IF index >= len THEN len + newslots ELSE len
        t == IF index < len THEN w
             ELSE IF ref = 0
                  THEN LET a == NewMincList(w, EmptySlots(newlen))
                       IN SetSymbolValue(a, sym, MincListValue(Len(a.lists)))
                  ELSE [w EXCEPT !.lists[ref] = MincListResize(@, newlen)]
        theList == SymbolValue(t, sym).val
    IN [t EXCEPT !.lists[theList][index + 1] = exp]

NodeSubscriptWrite(n, s) ==
    LET s1 == exct(n.obj, s)
    IN IF Raised(s1) THEN s1
       ELSE LET s2 == exct(n.index, s1)
            IN IF Raised(s2) THEN s2
               ELSE LET s3 == exct(n.exp, s2)
                    IN IF Raised(s3) THEN s3
                       ELSE LET before == SymbolValue(s3, s1.sym)
                                t == IF before.type = "list"
                                     THEN writeToSubscript(s3, s1.sym, s2.v, s3.v)
                                     ELSE minc_die(s3, "not a list or map")
                            IN IF Raised(t) THEN t
                               ELSE [t EXCEPT !.v = s3.v, !.sym = NoSymbol,
                                              !.writes = Append(@,
                                                 [index |-> s2.v.val, exp |-> s3.v,
                                                  before |-> IF before.val = 0 THEN <<>>
                                                             ELSE s3.lists[before.val],
                                                  after |-> t.lists[SymbolValue(t, s1.sym).val]])]

(* --------------------------- NodeMemberAccess --------------------------- *)
(* mutant of NodeMemberAccess: the method's symbol is pushed, not the object's *)
NodeMemberAccess_PushMethod(n, s) ==
    LET s1 == exct(n.obj, s)
    IN IF Raised(s1) THEN s1
       ELSE IF s1.v.type # "struct" THEN minc_die(s1, "variable is not a struct")
       ELSE IF s1.v.val = 0 THEN minc_die(s1, "struct variable is NULL")
       ELSE LET theStruct == s1.structs[s1.v.val]
            IN IF FindSym(theStruct.members, n.member) # 0
               THEN [s1 EXCEPT !.v = SymbolValue(s1, MemberSymbol(s1.v.val, n.member)),
                               !.sym = MemberSymbol(s1.v.val, n.member)]
               ELSE LET methodSymbol ==
                           lookupSymbol(s1, methodNameFromStructAndFunction(theStruct.typeName, n.member))
                    IN IF methodSymbol # NoSymbol
                       THEN [s1 EXCEPT !.v = SymbolValue(s1, methodSymbol), !.sym = methodSymbol,
                                       !.sMethodThisSymbols = Append(@, methodSymbol)]
                       ELSE minc_die(s1, "no member or method")

NodeMemberAccess(n, s) ==
    LET s1 == exct(n.obj, s)
        objectSymbol == s1.sym
    IN IF Raised(s1) THEN s1
       ELSE IF s1.v.type # "struct" THEN minc_die(s1, "variable is not a struct")
       ELSE IF s1.v.val = 0 THEN minc_die(s1, "struct variable is NULL")
       ELSE LET theStruct == s1.structs[s1.v.val]
            IN IF FindSym(theStruct.members, n.member) # 0
               THEN [s1 EXCEPT !.v = SymbolValue(s1, MemberSymbol(s1.v.val, n.member)),
                               !.sym = MemberSymbol(s1.v.val, n.member)]
               ELSE LET methodSymbol ==
                           lookupSymbol(s1, methodNameFromStructAndFunction(theStruct.typeName, n.member))
                    IN IF methodSymbol # NoSymbol
                       THEN [s1 EXCEPT !.v = SymbolValue(s1, methodSymbol), !.sym = methodSymbol,
                                       !.sMethodThisSymbols = Append(@, objectSymbol)]
                       ELSE minc_die(s1, "no member or method")

(* --------------------- NodeArgList / NodeArgListElem -------------------- *)
RECURSIVE NodeArgListElem(_, _, _)
NodeArgListElem(args, k, s) ==
    IF k = 0 THEN s
    ELSE
    LET s0 == [s EXCEPT !.sArgListLen = @ + 1]
        s1 == NodeArgListElem(args, k - 1, s0)
    IN IF Raised(s1) THEN s1
       ELSE LET s2 == exct(args[k], s1)
                argSym == s2.sym
            IN IF Raised(s2) THEN s2
               ELSE IF s2.sMincListLen > s2.sArgListLen
               THEN minc_die(s2, "takes fewer arguments than it was passed")
               ELSE IF s2.sArgListIndex >= s2.sMincListLen
               THEN LET w == IF s2.sMincWarningLevel > MincNoDefaultedArgWarnings
                             THEN minc_warn(s2, "arg not provided - defaulting to 0")
                             ELSE s2
                        zeroElem == ZeroValue(SymbolValue(w, argSym))
                    IN [SetSymbolValue(w, argSym, zeroElem) EXCEPT
                           !.v = zeroElem, !.sArgListIndex = @ + 1]
               ELSE LET argValue == s2.sMincList[s2.sArgListIndex + 1]
                    IN IF SymbolValue(s2, argSym).type # argValue.type
                       THEN minc_die(s2, "arg passed as another type")
                       ELSE [SetSymbolValue(s2, argSym, argValue) EXCEPT
                                !.v = argValue, !.sArgListIndex = @ + 1]

NodeArgList(args, s) ==
    LET s0 == [s EXCEPT !.sArgListLen = 0, !.sArgListIndex = 0,
                        !.inCalledFunctionArgList = TRUE]
        s1 == NodeArgListElem(args, Len(args), s0)
    IN IF Raised(s1) THEN s1 ELSE [s1 EXCEPT !.inCalledFunctionArgList = FALSE]

(* ------------------------------ MincFunction ---------------------------- *)
(* handleThis: a method takes the object symbol MemberAccess pushed last,   *)
(* binds its value to "this" in the callee's scope and drops it.            *)
handleThis(s, theFunction) ==
    IF ~theFunction.isMethod THEN s
    ELSE LET n == Len(s.sMethodThisSymbols)
             thisSym == s.sMethodThisSymbols[n]
             object == SymbolValueIn(s, s.callStack[Len(s.callStack)], thisSym)
         IN [installSymbol(s, "this", object) EXCEPT
                !.sMethodThisSymbols = SubSeq(@, 1, n - 1)]

(* copyArguments: the ArgList of the definition is executed *)
copyArguments(s, theFunction) == NodeArgList(theFunction.args, s)

(* execute: the body of the definition is executed *)
execute(s, theFunction) == exct(theFunction.body, s)

(* what the callee's scope holds once the prologue is done *)
Frame(s, theFunction, passed) ==
    [fn |-> theFunction.name,
     passed |-> passed,
     bound |-> [k \in 1 .. Len(theFunction.args) |->
                   SymbolValue(s, TableSymbol(current_scope(s), theFunction.args[k].name))],
     this |-> IF theFunction.isMethod
              THEN SymbolValue(s, TableSymbol(current_scope(s), "this")) ELSE MincVoid,
     warnings |-> Len(s.warnings)]
NoFrame == [fn |-> "", passed |-> <<>>, bound |-> <<>>, this |-> MincVoid, warnings |-> 0]

(* ------------------- NodeCall::callMincFunctionFromNode ----------------- *)
(* the statements after the try block: the call ended or a Ret was caught *)
(* mutant of CallEpilogue: the function stack is not popped *)
CallEpilogue_NoPop(s, temp) ==
    [s EXCEPT !.sFunctionCallDepth = @ - 1, !.v = temp, !.sym = NoSymbol,
              !.sCalledFunctions = SubSeq(@, 1, Len(@) - 1)]

CallEpilogue(s, temp) ==
    LET s1 == [s EXCEPT !.sFunctionCallDepth = @ - 1, !.v = temp, !.sym = NoSymbol]
        s2 == pop_function_stack(s1)
    IN [s2 EXCEPT !.sCalledFunctions = SubSeq(@, 1, Len(@) - 1)]

(* catch (...): anything else is an error *)
CallCatchAll(s) == [pop_function_stack(s) EXCEPT !.sFunctionCallDepth = @ - 1]

callMincFunctionFromNode(s, funcSymbol, functionValue) ==
    LET s0 == [s EXCEPT !.sCalledFunctions =
                  Append(@, IF funcSymbol # NoSymbol THEN funcSymbol.name ELSE "temp lhs")]
    IN IF functionValue.val = 0
       THEN minc_die([s0 EXCEPT !.frame = NoFrame, !.where = "null"], "mfunction variable is NULL")
       ELSE
       LET theFunction == Functions[functionValue.val]
           s1 == push_scope(push_function_stack(s0))
           s2 == handleThis(s1, theFunction)
           s3 == copyArguments(s2, theFunction)
       IN IF Raised(s3)
          THEN [CallCatchAll(s3) EXCEPT
                   !.frame = [NoFrame EXCEPT !.fn = theFunction.name, !.passed = s.sMincList],
                   !.where = "prologue"]
          ELSE
          LET savedScope == current_scope(s3)
              s4 == [s3 EXCEPT !.sFunctionCallDepth = @ + 1]
              savedCallDepth == s4.sFunctionCallDepth
              frame == Frame(s3, theFunction, s.sMincList)
              s5 == execute(s4, theFunction)
          IN IF s5.exc = "error" THEN [CallCatchAll(s5) EXCEPT !.frame = frame, !.where = "body"]
             ELSE IF s5.exc = "ret"
             THEN [CallEpilogue(restore_scope([s5 EXCEPT !.exc = "none",
                                                         !.sFunctionCallDepth = savedCallDepth],
                                              savedScope), s5.v)
                     EXCEPT !.frame = frame, !.where = "ret"]
             ELSE [CallEpilogue(s5, s5.v) EXCEPT !.frame = frame, !.where = "end"]

(* ---------------------- NodeCall::callBuiltinFunction ------------------- *)
NO_ERROR == 0
callBuiltinFunction(s, functionValue) ==
    IF functionValue.val = 0 THEN minc_die(s, "string variable called as function is NULL")
    ELSE LET result == Builtins[functionValue.val].result
             t == [s EXCEPT !.v = MincFloat(result), !.sym = NoSymbol]
         IN IF result = NO_ERROR THEN t ELSE [t EXCEPT !.exc = "error"]

(* ------------------------------- NodeCall ------------------------------- *)
CallRecord(n, pre, s, frame, how) ==
    [fn |-> frame.fn, how |-> how, frame |-> frame, value |-> s.v,
     scopeBefore |-> current_scope(pre), scopeAfter |-> current_scope(s),
     depthBefore |-> pre.sFunctionCallDepth, depthAfter |-> s.sFunctionCallDepth,
     thisBefore |-> Len(pre.sMethodThisSymbols), thisAfter |-> Len(s.sMethodThisSymbols),
     object |-> IF n.target.kind = "NodeMemberAccess" /\ n.target.obj.kind = "NodeLoadSym"
                   /\ lookupSymbol(pre, n.target.obj.name) # NoSymbol
                THEN SymbolValue(pre, lookupSymbol(pre, n.target.obj.name)) ELSE MincVoid]

NodeCall(n, s) ==
    LET s1 == exct(n.target, s)
    IN IF Raised(s1) THEN s1
       ELSE LET s2 == push_list(s1)
            IN IF Raised(s2) THEN s2
               ELSE LET s3 == NodeListElem(n.args, Len(n.args), s2)
                    IN IF Raised(s3) THEN s3
                       ELSE IF s1.v.type = "function"
                       THEN LET s4 == callMincFunctionFromNode(s3, s1.sym, s1.v)
                                s5 == IF Raised(s4) THEN s4
                                      ELSE [pop_list(s4) EXCEPT !.v = s4.v, !.sym = NoSymbol]
                            IN [s5 EXCEPT !.callLog = Append(@, CallRecord(n, s, s5, s4.frame, s4.where))]
                       ELSE IF s1.v.type = "string"
                       THEN LET s4 == callBuiltinFunction(s3, s1.v)
                            IN IF Raised(s4) THEN s4
                               ELSE [pop_list(s4) EXCEPT !.v = s4.v, !.sym = NoSymbol]
                       ELSE minc_die(s3, "variable is not a function or instrument")

(* ----------------------------- control flow ----------------------------- *)
IsTrue(v) == v.val # 0

NodeIf(n, s) ==
    LET s1 == exct(n.cond, s)
    IN IF Raised(s1) \/ ~IsTrue(s1.v) THEN s1 ELSE exct(n.body, s1)

RECURSIVE NodeWhile(_, _)
NodeWhile(n, s) ==
    LET s1 == exct(n.cond, s)
    IN IF Raised(s1) \/ ~IsTrue(s1.v) THEN s1
       ELSE LET s2 == exct(n.body, s1)
            IN IF Raised(s2) THEN s2 ELSE NodeWhile(n, s2)

NodeSeq(n, s) ==
    LET s1 == exct(n.a, s)
    IN IF Raised(s1) THEN s1 ELSE exct(n.b, s1)

NodeBlock(n, s) ==
    LET s1 == exct(n.body, push_scope(s))
    IN IF Raised(s1) THEN s1 ELSE [pop_scope(s1) EXCEPT !.v = MincVoid, !.sym = NoSymbol]

(* NodeRet: the value of the expression is thrown with the node *)
NodeRet(n, s) ==
    LET s1 == exct(n.exp, s)
    IN IF Raised(s1) THEN s1 ELSE [s1 EXCEPT !.exc = "ret"]

NodeFuncBodySeq(n, s) ==
    LET s1 == exct(n.body, s)
    IN IF Raised(s1) THEN s1 ELSE exct(n.ret, s1)

exct(n, s) ==
    CASE n.kind = "NodeConstf" -> NodeConstf(n, s)
      [] n.kind = "NodeLoadSym" -> NodeLoadSym(n, s)
      [] n.kind = "NodeAutoDeclLoadSym" -> NodeAutoDeclLoadSym(n, s)
      [] n.kind = "NodeLoadFuncSym" -> NodeLoadFuncSym(n, s)
      [] n.kind = "NodeDecl" -> NodeDecl(n, s)
      [] n.kind = "NodeList" -> NodeList(n, s)
      [] n.kind = "NodeStore" -> NodeStore(n, s)
      [] n.kind = "NodeSubscriptWrite" -> NodeSubscriptWrite(n, s)
      [] n.kind = "NodeMemberAccess" -> NodeMemberAccess(n, s)
      [] n.kind = "NodeCall" -> NodeCall(n, s)
      [] n.kind = "NodeIf" -> NodeIf(n, s)
      [] n.kind = "NodeWhile" -> NodeWhile(n, s)
      [] n.kind = "NodeSeq" -> NodeSeq(n, s)
      [] n.kind = "NodeBlock" -> NodeBlock(n, s)
      [] n.kind = "NodeRet" -> NodeRet(n, s)
      [] n.kind = "NodeFuncBodySeq" -> NodeFuncBodySeq(n, s)
      [] OTHER -> s

(* ------------------------- the state at the start ---------------------- *)
InitGlobals ==
    [f \in 1 .. Len(Functions) |-> [name |-> Functions[f].name, value |-> MincFunctionValue(f)]]
    \o << [name |-> "p", value |-> MincStructValue(1)],
          [name |-> "q", value |-> MincStructValue(2)] >>

(* p = P{42}, q = P{7} *)
InitStructs ==
    << [typeName |-> "P", members |-> <<[name |-> "x", value |-> MincFloat(42)]>>],
       [typeName |-> "P", members |-> <<[name |-> "x", value |-> MincFloat(7)]>>] >>

InitMincState ==
    [globals |-> InitGlobals, scopes |-> <<>>, callStack |-> <<>>,
     lists |-> <<>>, structs |-> InitStructs,
     sMincList |-> NoList, sMincListLen |-> 0,
     list_stack |-> [i \in 1 .. MAXSTACK |-> NoList],
     list_len_stack |-> [i \in 1 .. MAXSTACK |-> 0],
     list_stack_ptr |-> 0, list_stack_range |-> TRUE,
     sMethodThisSymbols |-> <<>>, sArgListLen |-> 0, sArgListIndex |-> 0,
     inCalledFunctionArgList |-> FALSE, sCalledFunctions |-> <<>>,
     sFunctionCallDepth |-> 0, sMincWarningLevel |-> MincAllWarnings,
     exc |-> "none", died |-> "", warnings |-> <<>>,
     v |-> MincVoid, sym |-> NoSymbol,
     trace |-> <<>>, writes |-> <<>>, callLog |-> <<>>, frame |-> NoFrame, where |-> ""]

InitMinc ==
    /\ minc = InitMincState
    /\ stmt = 0
    /\ nStmts = 0
    /\ aliases = {}

(* One statement of the score is executed.  The records kept of a statement *)
(* (trace, writes, callLog, warnings) start empty with it.                  *)
RunStatement(n, s) ==
    exct(n, [s EXCEPT !.trace = <<>>, !.writes = <<>>, !.callLog = <<>>, !.warnings = <<>>,
                      !.frame = NoFrame, !.where = ""])

(* The names a completed statement leaves referring to one list: a Store of *)
(* one list variable into another pairs the two names; any other Store into *)
(* a name ends the pairs it was in.                                         *)
Aliased(n, r, pairs) ==
    IF n.kind # "NodeStore" \/ r.exc # "none" THEN pairs
    ELSE LET kept == {p \in pairs : n.lhs.name \notin p}
         IN IF n.rhs.kind = "NodeLoadSym" /\ r.v.type = "list"
            THEN kept \cup {{n.lhs.name, n.rhs.name}}
            ELSE kept

Statement(i) ==
    /\ minc.exc = "none"
    /\ nStmts < MaxStmts
    /\ \E r \in {RunStatement(Programs[i], minc)} :
          /\ minc' = r
          /\ aliases' = Aliased(Programs[i], r, aliases)
    /\ stmt' = i
    /\ nStmts' = nStmts + 1


(* clear_tree_state: the statics are cleared before the score is parsed again *)
clear_tree_state(s) ==
    [s EXCEPT !.sMincListLen = 0, !.sMincList = NoList,
              !.list_stack = [i \in 1 .. MAXSTACK |-> NoList],
              !.list_len_stack = [i \in 1 .. MAXSTACK |-> 0],
              !.list_stack_ptr = 0, !.sMethodThisSymbols = <<>>,
              !.inCalledFunctionArgList = FALSE, !.sCalledFunctions = <<>>,
              !.sFunctionCallDepth = 0, !.sArgListLen = 0, !.sArgListIndex = 0]

(* After a fatal error ended the pass, the statics are cleared and the next *)
(* statements run on the symbol table as the error left it.                 *)
ClearTreeState ==
    /\ minc.exc = "error"
    /\ minc' = [clear_tree_state(minc) EXCEPT !.exc = "none", !.died = "",
                    !.trace = <<>>, !.writes = <<>>, !.callLog = <<>>, !.warnings = <<>>]
    /\ stmt' = 0
    /\ UNCHANGED <<nStmts, aliases>>

(***************************************************************************)
(* The tempo map (src/unnamed/part_001): tbase, tempo, time_beat,          *)
(* beat_time and t.                                                        *)
(*                                                                         *)
(* A number of the program is modelled exactly: a rational <<n, d>> in     *)
(* lowest terms with d > 0, or a linear form h * HUGE + r in the sentinel  *)
(* HUGE = .999999e+10 that tempo stores after the last breakpoint, taken   *)
(* as an indeterminate greater than every rational of the model.  The      *)
(* rounding of float arithmetic is not modelled.  A division by zero       *)
(* gives NaN (the model does not tell an infinity from a NaN: no result of *)
(* a division by zero is compared or used again by the code modelled).     *)
(***************************************************************************)
Abs(n) == IF n < 0 THEN -n ELSE n

RECURSIVE Gcd(_, _)
Gcd(a, b) == IF b = 0 THEN a ELSE Gcd(b, a % b)

(* the rational n / d (d # 0) in lowest terms *)
Rat(n, d) ==
    LET g == Gcd(Abs(n), Abs(d))
        s == IF d < 0 THEN -1 ELSE 1
    IN IF n = 0 THEN <<0, 1>> ELSE <<(s * n) \div g, (s * d) \div g>>
RAdd(a, b) == Rat(a[1] * b[2] + b[1] * a[2], a[2] * b[2])
RNeg(a) == <<-a[1], a[2]>>
RMul(a, b) == Rat(a[1] * b[1], a[2] * b[2])
RInv(a) == Rat(a[2], a[1])
RLt(a, b) == a[1] * b[2] < b[1] * a[2]
RZero == <<0, 1>>

(* the root of a rational: exact when the rational is a square, cut to a
   multiple of 1 / 100 when it is not *)
IsSquare(n) == n >= 0 /\ \E k \in 0 .. n : k * k = n
ISqrt(n) == CHOOSE k \in 0 .. n : k * k = n
RSqrt(a) ==
    IF IsSquare(a[1]) /\ IsSquare(a[2]) THEN <<ISqrt(a[1]), ISqrt(a[2])>>
    ELSE LET scale == 100
             top == a[1] * scale * scale
             k == CHOOSE j \in 0 .. (scale * (a[1] \div a[2] + 1)) :
                      j * j * a[2] <= top /\ (j + 1) * (j + 1) * a[2] > top
         IN Rat(k, scale)

NaN == [h |-> RZero, r |-> RZero, nan |-> TRUE]
Fin(q) == [h |-> RZero, r |-> q, nan |-> FALSE]
Num(n) == Fin(Rat(n, 1))
HUGE == [h |-> <<1, 1>>, r |-> RZero, nan |-> FALSE]
FScale(x, q) == [h |-> RMul(x.h, q), r |-> RMul(x.r, q), nan |-> FALSE]
FIsZero(x) == ~x.nan /\ x.h = RZero /\ x.r = RZero
FAdd(x, y) ==
    IF x.nan \/ y.nan THEN NaN
    ELSE [h |-> RAdd(x.h, y.h), r |-> RAdd(x.r, y.r), nan |-> FALSE]
FSub(x, y) ==
    IF x.nan \/ y.nan THEN NaN
    ELSE [h |-> RAdd(x.h, RNeg(y.h)), r |-> RAdd(x.r, RNeg(y.r)), nan |-> FALSE]
FMul(x, y) ==
    IF x.nan \/ y.nan THEN NaN
    ELSE IF x.h = RZero THEN FScale(y, x.r)
    ELSE IF y.h = RZero THEN FScale(x, y.r)
    ELSE NaN
FDiv(x, y) ==
    IF x.nan \/ y.nan \/ FIsZero(y) THEN NaN
    ELSE IF y.h = RZero THEN FScale(x, RInv(y.r))
    ELSE IF FIsZero(x) THEN x
    ELSE IF x.r = RZero /\ y.r = RZero THEN Fin(RMul(x.h, RInv(y.h)))
    ELSE NaN
(* x < y; a comparison with NaN is false *)
FLt(x, y) ==
    /\ ~x.nan /\ ~y.nan
    /\ \/ RLt(x.h, y.h)
       \/ x.h = y.h /\ RLt(x.r, y.r)
FLe(x, y) == ~x.nan /\ ~y.nan /\ (FLt(x, y) \/ x = y)
FSqrt(x) ==
    IF ~x.nan /\ x.h = RZero /\ x.r[1] >= 0 THEN Fin(RSqrt(x.r)) ELSE NaN
TWO == Num(2)
(* pow(x, TWO) *)
FSquare(x) == FMul(x, x)

(* --------------------------- the statics ------------------------------- *)
TLEN == 20    \* maximum number of time/tempo pairs
TLENP == 21

(* xtime, temp, rxtime, accel: arrays of TLENP floats, all zero; BASIS = 60; *)
(* tset = 0; npts is not initialised by the program text (a static: zero)  *)
InitTempoState ==
    [xtime |-> [m \in 0 .. TLENP - 1 |-> Num(0)],
     temp |-> [m \in 0 .. TLENP - 1 |-> Num(0)],
     rxtime |-> [m \in 0 .. TLENP - 1 |-> Num(0)],
     accel |-> [m \in 0 .. TLENP - 1 |-> Num(0)],
     BASIS |-> Num(60), tset |-> 0, npts |-> 0]

(* tbase (16-21) *)
tbase(s, p0) == [s EXCEPT !.BASIS = Num(p0)]

(* tempo, line 34: the first TLEN cells of the four arrays are zeroed *)
TempoZeroed(s) ==
    LET zero(a) == [m \in 0 .. TLENP - 1 |-> IF m < TLEN THEN Num(0) ELSE a[m]]
    IN [s EXCEPT !.xtime = zero(@), !.temp = zero(@), !.rxtime = zero(@),
                 !.accel = zero(@)]

(* tempo, lines 35-40: the time/tempo pairs are stored from cell 1 on; the
   result is the state and whether the loop ended in die *)
RECURSIVE TempoPairs(_, _, _, _)
TempoPairs(s, p, m, n) ==
    IF m >= TLEN \/ (m # 0 /\ m >= Len(p))
    THEN [s |-> [s EXCEPT !.npts = n], died |-> FALSE]
    ELSE LET s1 == [s EXCEPT !.npts = n,
                             !.xtime[n] = Num(p[m + 1]),
                             !.temp[n] = FDiv(Num(p[m + 2]), s.BASIS)]
         IN IF FIsZero(s1.temp[n])
            THEN [s |-> s1, died |-> TRUE]
            ELSE TempoPairs(s1, p, m + 2, n + 1)

(* tempo, lines 46-64: the beat position of every breakpoint *)
RECURSIVE TempoBeats(_, _, _)
TempoBeats(s, m, prvbt) ==
    IF m >= s.npts THEN s
    ELSE LET dur == FSub(s.xtime[m + 1], s.xtime[m])
             acc == FDiv(FSub(FSquare(s.temp[m + 1]), FSquare(s.temp[m])),
                         FMul(TWO, dur))
             s1 == IF FIsZero(dur)
                   THEN [s EXCEPT !.accel[m] = Num(0), !.rxtime[m + 1] = s.rxtime[m]]
                   ELSE IF FIsZero(acc)
                   THEN [s EXCEPT !.accel[m] = acc,
                                  !.rxtime[m + 1] = FAdd(FDiv(dur, s.temp[m]), prvbt)]
                   ELSE [s EXCEPT !.accel[m] = acc,
                                  !.rxtime[m + 1] =
                                      FAdd(FDiv(FSub(FSqrt(FAdd(FSquare(s.temp[m]),
                                                                FMul(FMul(TWO, acc), dur))),
                                                     s.temp[m]),
                                                acc),
                                           prvbt)]
         IN TempoBeats(s1, m + 1, s1.rxtime[m + 1])

(* tempo (24-69): the state it leaves and how it ends: "cleared" (returns
   -1.0), "set" (returns 0.0) or "died" (returns what die returns); p is the
   argument list, of n_args = Len(p) numbers *)
tempo(s, p) ==
    IF Len(p) = 0 THEN [s |-> [s EXCEPT !.tset = 0], outcome |-> "cleared"]
    ELSE LET l == TempoPairs(TempoZeroed(s), p, 0, 1)
             n == l.s.npts
             s1 == [l.s EXCEPT !.tset = 1, !.rxtime[n] = HUGE, !.xtime[n] = HUGE]
             s2 == [s1 EXCEPT !.temp[n] = s1.temp[n - 1]]
             s3 == [s2 EXCEPT !.temp[0] = s2.temp[1]]
             s4 == [s3 EXCEPT !.xtime[0] = Num(0), !.rxtime[0] = Num(0), !.accel[0] = Num(0)]
         IN IF l.died THEN [s |-> l.s, outcome |-> "died"]
            ELSE [s |-> TempoBeats(s4, 0, Num(0)), outcome |-> "set"]

(* the first m in 0 .. npts with lo[m] < x <= lo[m + 1], or npts + 1: the
   value of m after the for loops of time_beat and beat_time *)
RECURSIVE SegmentOf(_, _, _, _)
SegmentOf(s, lo, x, m) ==
    IF m > s.npts THEN m
    ELSE IF FLt(lo[m], x) /\ FLe(x, lo[m + 1]) THEN m
    ELSE SegmentOf(s, lo, x, m + 1)

(* time_beat (72-97) *)
time_beat(s, t0) ==
    LET timein == IF FLt(t0, Num(0)) THEN Num(0) ELSE t0
        m == IF FLt(Num(0), timein) THEN SegmentOf(s, s.xtime, timein, 0) ELSE 0
        durp == IF FLt(Num(0), timein) /\ m <= s.npts
                THEN FSub(timein, s.xtime[m]) ELSE Num(0)
    IN IF s.tset = 0 THEN timein
       ELSE IF FIsZero(s.accel[m])
       THEN FAdd(FDiv(durp, s.temp[m]), s.rxtime[m])
       ELSE FAdd(FDiv(FSub(FSqrt(FAdd(FSquare(s.temp[m]),
                                      FMul(FMul(TWO, s.accel[m]), durp))),
                           s.temp[m]),
                      s.accel[m]),
                 s.rxtime[m])

(* beat_time (100-118) *)
beat_time(s, beatin) ==
    LET m == IF ~FIsZero(beatin) THEN SegmentOf(s, s.rxtime, beatin, 0) ELSE 0
    IN IF s.tset = 0 THEN beatin
       ELSE IF FIsZero(s.accel[m])
       THEN FAdd(FMul(FSub(beatin, s.rxtime[m]), s.temp[m]), s.xtime[m])
       ELSE FAdd(FDiv(FSub(FSquare(FAdd(FMul(FSub(beatin, s.rxtime[m]), s.accel[m]),
                                        s.temp[m])),
                           FSquare(s.temp[m])),
                      FMul(TWO, s.accel[m])),
                 s.xtime[m])

(* ------------------------------ actions -------------------------------- *)
NoTempoCall == [p |-> <<>>, outcome |-> "none", made |-> FALSE]
NoQuery == [p0 |-> Num(0), x |-> Num(0), y |-> Num(0), made |-> FALSE]

InitTempo ==
    /\ tempoState = InitTempoState
    /\ tempoCall = NoTempoCall
    /\ tempoQuery = NoQuery

Tbase(p0) ==
    /\ tempoState' = tbase(tempoState, p0)
    /\ tempoQuery' = NoQuery
    /\ UNCHANGED tempoCall

Tempo(p) ==
    /\ \E r \in {tempo(tempoState, p)} :
          /\ tempoState' = r.s
          /\ tempoCall' = [p |-> p, outcome |-> r.outcome, made |-> TRUE]
    /\ tempoQuery' = NoQuery

(* t (121-129): both conversions of p[0] *)
TQuery(p0) ==
    /\ tempoQuery' = [p0 |-> p0, x |-> time_beat(tempoState, p0),
                      y |-> beat_time(tempoState, p0), made |-> TRUE]
    /\ UNCHANGED <<tempoState, tempoCall>>

(***************************************************************************)
(* Run-time options (src/unnamed/part_002) and set_option                  *)
(* (src/unnamed/part_003).                                                 *)
(*                                                                         *)
(* An argument of set_option is modelled as it stands after lines 76-97:   *)
(* [opt, eq, val], opt the text left of the '=' (or the whole text), eq    *)
(* whether there is an '=', val the text right of it.                      *)
(***************************************************************************)
(* Option::Option (13-18); a NULL device is "" *)
NewOption ==
    [audio |-> TRUE, play |-> TRUE, record |-> FALSE, clobber |-> FALSE,
     print |-> TRUE, reportClipping |-> TRUE, checkPeaks |-> TRUE,
     device |-> "", inDevice |-> "", outDevice |-> ""]

(* the accessors of Option: o.member(v) stores v in the member *)
OptionSet(o, member, v) == [o EXCEPT ![member] = v]

(* get_bool_option (217-236), by the key names of the configuration file *)
get_bool_option(o, option_name) ==
    CASE option_name = "print" -> o.print
      [] option_name = "report_clipping" -> o.reportClipping
      [] option_name = "check_peaks" -> o.checkPeaks
      [] option_name = "clobber" -> o.clobber
      [] option_name = "audio" -> o.audio
      [] option_name = "play" -> o.play
      [] option_name = "record" -> o.record

(* set_bool_option (238-256) *)
set_bool_option(o, option_name, value) ==
    CASE option_name = "print" -> OptionSet(o, "print", value)
      [] option_name = "report_clipping" -> OptionSet(o, "reportClipping", value)
      [] option_name = "check_peaks" -> OptionSet(o, "checkPeaks", value)
      [] option_name = "clobber" -> OptionSet(o, "clobber", value)
      [] option_name = "audio" -> OptionSet(o, "audio", value)
      [] option_name = "play" -> OptionSet(o, "play", value)
      [] option_name = "record" -> OptionSet(o, "record", value)

(* param_list (37-55) *)
param_list ==
    << [arg |-> "DEVICE", type |-> "DEVICE", value |-> FALSE],
       [arg |-> "INDEVICE", type |-> "INDEVICE", value |-> FALSE],
       [arg |-> "OUTDEVICE", type |-> "OUTDEVICE", value |-> FALSE],
       [arg |-> "AUDIO_ON", type |-> "AUDIO", value |-> TRUE],
       [arg |-> "AUDIO_OFF", type |-> "AUDIO", value |-> FALSE],
       [arg |-> "RECORD_ON", type |-> "RECORD", value |-> TRUE],
       [arg |-> "RECORD_OFF", type |-> "RECORD", value |-> FALSE],
       [arg |-> "PLAY_ON", type |-> "AUDIO", value |-> TRUE],
       [arg |-> "PLAY_OFF", type |-> "AUDIO", value |-> FALSE],
       [arg |-> "CLOBBER_ON", type |-> "CLOBBER", value |-> TRUE],
       [arg |-> "CLOBBER_OFF", type |-> "CLOBBER", value |-> FALSE],
       [arg |-> "REPORT_CLIPPING_ON", type |-> "REPORT_CLIPPING", value |-> TRUE],
       [arg |-> "REPORT_CLIPPING_OFF", type |-> "REPORT_CLIPPING", value |-> FALSE],
       [arg |-> "CHECK_PEAKS_ON", type |-> "CHECK_PEAKS", value |-> TRUE],
       [arg |-> "CHECK_PEAKS_OFF", type |-> "CHECK_PEAKS", value |-> FALSE],
       [arg |-> "FULL_DUPLEX_ON", type |-> "FULL_DUPLEX", value |-> TRUE],
       [arg |-> "FULL_DUPLEX_OFF", type |-> "FULL_DUPLEX", value |-> FALSE] >>
num_params == Len(param_list)

(* strcasecmp(a, b) == 0: the texts are equal once letters are upper case;
   of the texts the model draws only these have lower-case letters *)
ToUpper(a) ==
    CASE a = "record_on" -> "RECORD_ON"
      [] a = "audio_off" -> "AUDIO_OFF"
      [] OTHER -> a
SameIgnoringCase(a, b) == ToUpper(a) = ToUpper(b)

(* lines 103-108 and 111-116: the first entry whose arg is opt, or 0 *)
MatchParam(opt) ==
    IF \E j \in 1 .. num_params : SameIgnoringCase(param_list[j].arg, opt)
    THEN CHOOSE j \in 1 .. num_params :
             /\ SameIgnoringCase(param_list[j].arg, opt)
             /\ \A k \in 1 .. (j - 1) : ~SameIgnoringCase(param_list[k].arg, opt)
    ELSE 0

(* lines 95-182 for one argument: the options it leaves and whether
   set_option returns -1.0 at once *)
SetOptionArg(o, called, a) ==
    LET j == MatchParam(a.opt)
        type == param_list[j].type
        value == param_list[j].value
        fail(x) == [o |-> x, failed |-> TRUE]
        pass(x) == [o |-> x, failed |-> FALSE]
    IN IF a.eq /\ a.val = "" THEN fail(o)
       ELSE IF j = 0 THEN fail(o)
       ELSE CASE type = "DEVICE" ->
                    IF ~a.eq THEN fail(o) ELSE pass(OptionSet(o, "device", a.val))
              [] type = "INDEVICE" ->
                    IF ~a.eq THEN fail(o) ELSE pass(OptionSet(o, "inDevice", a.val))
              [] type = "OUTDEVICE" ->
                    IF ~a.eq THEN fail(o) ELSE pass(OptionSet(o, "outDevice", a.val))
              [] type = "AUDIO" -> pass(OptionSet(o, "play", value))
              [] type = "RECORD" -> pass(OptionSet(o, "record", value))
              [] type = "CLOBBER" -> pass(OptionSet(o, "clobber", value))
              [] type = "REPORT_CLIPPING" -> pass(OptionSet(o, "reportClipping", value))
              [] type = "CHECK_PEAKS" -> pass(OptionSet(o, "checkPeaks", value))
              [] type = "FULL_DUPLEX" ->
                    IF value /\ called THEN fail(o)
                    ELSE LET o1 == IF value THEN OptionSet(o, "record", TRUE)
                                   ELSE OptionSet(o, "record", o.record /\ ~o.play)
                         IN IF o1.record /\ called THEN fail(o1) ELSE pass(o1)

(* set_option (61-185): the arguments from the i-th on *)
RECURSIVE set_option(_, _, _, _)
set_option(o, called, pp, i) ==
    IF i > Len(pp) THEN [o |-> o, ret |-> 0]
    ELSE LET r == SetOptionArg(o, called, pp[i])
         IN IF r.failed THEN [o |-> r.o, ret |-> -1]
            ELSE set_option(r.o, called, pp, i + 1)

(* ------------------------------ actions -------------------------------- *)
NoOptionCall == [pp |-> <<>>, ret |-> 0, before |-> NewOption, called |-> FALSE,
                 made |-> FALSE]

InitOption ==
    /\ options = NewOption
    /\ rtsetparams_called = FALSE
    /\ optionCall = NoOptionCall

SetOption(pp) ==
    /\ \E r \in {set_option(options, rtsetparams_called, pp, 1)} :
          /\ options' = r.o
          /\ optionCall' = [pp |-> pp, ret |-> r.ret, before |-> options,
                            called |-> rtsetparams_called, made |-> TRUE]
    /\ UNCHANGED rtsetparams_called

(* rtsetparams: from then on rtsetparams_called is set *)
Rtsetparams ==
    /\ ~rtsetparams_called
    /\ rtsetparams_called' = TRUE
    /\ UNCHANGED <<options, optionCall>>

(* set_bool_option called from C code *)
SetBoolOption(option_name, value) ==
    /\ options' = set_bool_option(options, option_name, value)
    /\ optionCall' = NoOptionCall
    /\ UNCHANGED rtsetparams_called

(***************************************************************************)
(* The builtins interp, index and substring (src/unnamed/part_004) and the *)
(* concatenation of strings (NodeOp::do_op_string of Node.cpp).            *)
(*                                                                         *)
(* A Float is a rational, a String a sequence of characters or NULL, a     *)
(* List and a Handle a reference: a List is a position of the heap         *)
(* BuiltinLists, 0 for a list variable that was never given a list.        *)
(* A builtin gives [ret, warnings, ub]: ub says that it has read or        *)
(* written through a NULL pointer or outside an array.                     *)
(***************************************************************************)
BValue(type, num, text, ref, null) ==
    [type |-> type, num |-> num, text |-> text, ref |-> ref, null |-> null]
BFloat(n, d) == BValue("float", Rat(n, d), <<>>, 0, FALSE)
BString(text) == BValue("string", RZero, text, 0, FALSE)
NullString == BValue("string", RZero, <<>>, 0, TRUE)
BList(ref) == BValue("list", RZero, <<>>, ref, ref = 0)
BHandle(h) == BValue("handle", RZero, <<>>, h, FALSE)
BStruct(ref) == BValue("struct", RZero, <<>>, ref, FALSE)

(* the lists the builtins are called with: list 4 has the elements of list 3 *)
BuiltinLists ==
    << <<BFloat(1, 1), BFloat(2, 1), BString(<<"a">>), BFloat(2, 1)>>,
       <<BList(3), BList(1), BHandle(1), BHandle(2), BString(<<"a", "b">>),
         BString(<<"a">>), BHandle(2), BList(1)>>,
       <<BFloat(2, 1), BFloat(4, 1), BFloat(8, 1)>>,
       <<BFloat(2, 1), BFloat(4, 1), BFloat(8, 1)>>,
       <<BFloat(5, 1)>>,
       <<>>,
       <<BFloat(3, 1), BString(<<"a">>)>> >>

Returned(v, w) == [ret |-> v, warnings |-> w, ub |-> FALSE]
Undefined == [ret |-> BFloat(0, 1), warnings |-> <<>>, ub |-> TRUE]

(* (int) x for a rational x: the fraction is cut off *)
Trunc(q) == IF q[1] >= 0 THEN q[1] \div q[2] ELSE -((-q[1]) \div q[2])
min(x, y) == IF x <= y THEN x ELSE y

(* _minc_interp (582-612) *)
_minc_interp_ClampToZero(args) ==
    IF Len(args) # 2
    THEN Returned(BFloat(-1, 1), <<"interp: must have two arguments (list, fraction)">>)
    ELSE IF args[1].type # "list"
    THEN Returned(BFloat(-1, 1), <<"interp: first argument must be a list">>)
    ELSE IF args[1].null THEN Undefined
    ELSE LET data == BuiltinLists[args[1].ref]
             len == Len(data)
             f == args[2].num
             fraction == IF RLt(f, RZero) THEN RZero
                         ELSE IF RLt(<<1, 1>>, f) THEN RZero ELSE f
             lowIndex == Trunc(RMul(<<len - 1, 1>>, fraction))
             highIndex == min(len - 1, lowIndex + 1)
             lo == data[lowIndex + 1]
             hi == data[highIndex + 1]
         IN IF len = 0 THEN Returned(BFloat(0, 1), <<>>)
            ELSE IF len = 1 THEN Returned(data[1], <<>>)
            ELSE IF lo.type # "float" \/ hi.type # "float"
            THEN Returned(BFloat(-1, 1),
                          <<"interp: list elements to interpolate must both be floats">>)
            ELSE LET out == RAdd(lo.num, RMul(fraction, RAdd(hi.num, RNeg(lo.num))))
                 IN Returned(BFloat(out[1], out[2]), <<>>)

_minc_interp(args) ==
    IF Len(args) # 2
    THEN Returned(BFloat(-1, 1), <<"interp: must have two arguments (list, fraction)">>)
    ELSE IF args[1].type # "list"
    THEN Returned(BFloat(-1, 1), <<"interp: first argument must be a list">>)
    ELSE IF args[1].null THEN Undefined
    ELSE LET data == BuiltinLists[args[1].ref]
             len == Len(data)
             f == args[2].num
             fraction == IF RLt(f, RZero) THEN RZero
                         ELSE IF RLt(<<1, 1>>, f) THEN <<1, 1>> ELSE f
             lowIndex == Trunc(RMul(<<len - 1, 1>>, fraction))
             highIndex == min(len - 1, lowIndex + 1)
             lo == data[lowIndex + 1]
             hi == data[highIndex + 1]
         IN IF len = 0 THEN Returned(BFloat(0, 1), <<>>)
            ELSE IF len = 1 THEN Returned(data[1], <<>>)
            ELSE IF lo.type # "float" \/ hi.type # "float"
            THEN Returned(BFloat(-1, 1),
                          <<"interp: list elements to interpolate must both be floats">>)
            ELSE LET out == RAdd(lo.num, RMul(fraction, RAdd(hi.num, RNeg(lo.num))))
                 IN Returned(BFloat(out[1], out[2]), <<>>)

(* _minc_index, lines 643-669: whether data[i] matches the item; a value of a
   type other than Float, String, List and Handle matches nothing *)
IndexMatch(elem, item) ==
    /\ elem.type = item.type
    /\ CASE item.type = "float" -> elem.num = item.num
         [] item.type = "string" -> elem.text = item.text
         [] item.type \in {"list", "handle"} -> elem.ref = item.ref
         [] OTHER -> FALSE

(* _minc_index, the loop from i on: the first index that matches, or -1 *)
RECURSIVE IndexLoop(_, _, _, _)
IndexLoop(data, item, i, index) ==
    IF i >= Len(data) THEN index
    ELSE IF IndexMatch(data[i + 1], item) THEN i
    ELSE IndexLoop(data, item, i + 1, index)

(* _minc_index (623-675) *)
_minc_index(args) ==
    IF Len(args) # 2
    THEN Returned(BFloat(-1, 1), <<"index: must have two arguments (list, item_to_find)">>)
    ELSE IF args[1].type # "list"
    THEN Returned(BFloat(-1, 1), <<"index: first argument must be a list">>)
    ELSE IF args[1].null THEN Undefined
    ELSE Returned(BFloat(IndexLoop(BuiltinLists[args[1].ref], args[2], 0, -1), 1), <<>>)

(* _minc_substring (749-780) *)
(* _minc_substring, lines 774-778: the length of the buffer allocated, and the
   index the terminator is stored at *)
SubstringNewLen(len, startIdx) == len - startIdx + 1
SubstringTerminator(len, startIdx, endIdx) ==
    (IF endIdx > len - 1 THEN len - 1 ELSE endIdx) - startIdx

_minc_substring(args) ==
    IF Len(args) # 3
    THEN Returned(NullString,
                  <<"substring: must have three arguments (string, start_index, end_index)">>)
    ELSE IF args[1].type # "string"
    THEN Returned(NullString, <<"substring: first argument must be a string">>)
    ELSE IF args[2].type # "float" \/ args[3].type # "float"
    THEN Returned(NullString, <<"substring: second and third arguments must be floats">>)
    ELSE IF args[1].null THEN Undefined
    ELSE LET startIdx == Trunc(args[2].num)
             endIdx0 == Trunc(args[3].num)
             theString == args[1].text
             len == Len(theString)
             clamped == endIdx0 > len - 1
             endIdx == IF clamped THEN len - 1 ELSE endIdx0
             w == IF clamped
                  THEN <<"substring: end index out of range - using string endpoint">>
                  ELSE <<>>
         IN IF startIdx < 0 \/ endIdx0 <= startIdx
            THEN Returned(NullString, <<"substring: illegal indices">>)
            ELSE IF endIdx - startIdx < 0 THEN Undefined
            ELSE Returned(BString(SubSeq(theString, startIdx + 1, endIdx)), w)

(* NodeOp::do_op_string, OpPlus (Node.cpp 368-375): strlen, strcpy and strcat
   read both strings *)
do_op_string(str1, str2) ==
    IF str1.null \/ str2.null THEN Undefined
    ELSE Returned(BString(str1.text \o str2.text), <<>>)

(* what a build can make of undefined behaviour: the process ends, or the
   call returns some value *)
Crashed == BValue("none", RZero, <<>>, 0, FALSE)
UndefinedOutcomes == {Crashed, NullString, BFloat(0, 1)}

(* ------------------------------ actions -------------------------------- *)
NoBuiltinCall == [fn |-> "none", args |-> <<>>, ret |-> Crashed, warnings |-> <<>>]

InitBuiltin == builtinCall = NoBuiltinCall

(* call_builtin_function (77-94) for one of the three builtins *)
CallBuiltin(fn, args) ==
    \E r \in {CASE fn = "interp" -> _minc_interp(args)
                [] fn = "index" -> _minc_index(args)
                [] fn = "substring" -> _minc_substring(args)} :
       \E v \in (IF r.ub THEN UndefinedOutcomes ELSE {r.ret}) :
          builtinCall' = [fn |-> fn, args |-> args, ret |-> v, warnings |-> r.warnings]

(* the score  x = substring(s, i, j) + substring(s, j, len(s));
              y = substring(s, i, len(s))                      *)
SubstringSplit(s, i, j) ==
    LET n == BFloat(Len(s.text), 1)
        a == _minc_substring(<<s, i, j>>)
        b == _minc_substring(<<s, j, n>>)
        c == _minc_substring(<<s, i, n>>)
        ab == do_op_string(a.ret, b.ret)
    IN \E x \in (IF a.ub \/ b.ub \/ ab.ub THEN UndefinedOutcomes ELSE {ab.ret}),
          y \in (IF c.ub THEN UndefinedOutcomes ELSE {c.ret}) :
          builtinCall' = [fn |-> "split", args |-> <<s, i, j>>,
                          ret |-> [x |-> x, y |-> y],
                          warnings |-> a.warnings \o b.warnings \o c.warnings]

(***************************************************************************)
(* The mutexes of the bus graph (bus_config.cpp), one statement at a time.  *)
(*                                                                         *)
(* Each function is the table of its statements that lock, unlock, call or *)
(* return; a statement is named after its source line.  What decides a     *)
(* branch or ends a loop (the flags, the counts) is left open: every       *)
(* successor the control flow allows is a successor here.                  *)
(***************************************************************************)
Lk(l, m, next) == [l |-> l, op |-> "lock", m |-> m, next |-> next]
Ul(l, m, next) == [l |-> l, op |-> "unlock", m |-> m, next |-> next]
Cl(l, entry, next) == [l |-> l, op |-> "call", m |-> entry, next |-> next]
Sk(l, next) == [l |-> l, op |-> "skip", m |-> "", next |-> next]
Rt(l) == [l |-> l, op |-> "return", m |-> "", next |-> {}]

(* print_parents (122-139) with the two locks taken in the other order *)
PrintParentsCode_Inverted ==
    {Lk("pp128", "has_parent_lock", {"pp130"}),
     Lk("pp130", "aux_in_use_lock", {"pp134"}),
     Ul("pp134", "aux_in_use_lock", {"pp136"}),
     Ul("pp136", "has_parent_lock", {"pp128", "pp139"}),
     Rt("pp139")}

(* print_parents (122-139) *)
PrintParentsCode ==
    {Lk("pp128", "aux_in_use_lock", {"pp130", "pp136"}),
     Lk("pp130", "has_parent_lock", {"pp134"}),
     Ul("pp134", "has_parent_lock", {"pp136"}),
     Ul("pp136", "aux_in_use_lock", {"pp128", "pp139"}),
     Rt("pp139")}

(* print_children (142-159) *)
PrintChildrenCode ==
    {Lk("pc148", "aux_in_use_lock", {"pc150", "pc156"}),
     Lk("pc150", "has_child_lock", {"pc154"}),
     Ul("pc154", "has_child_lock", {"pc156"}),
     Ul("pc156", "aux_in_use_lock", {"pc148", "pc159"}),
     Rt("pc159")}

(* print_inst_bus_config (184-210) *)
PrintInstBusConfigCode ==
    {Lk("pi189", "inst_bus_config_lock", {"pi191"}),
     Ul("pi191", "inst_bus_config_lock", {"pi209"}),
     Rt("pi209")}

(* print_play_order (213-225) *)
PrintPlayOrderCode ==
    {Lk("po218", "aux_to_aux_lock", {"po222"}),
     Ul("po222", "aux_to_aux_lock", {"po218", "po225"}),
     Rt("po225")}

(* check_bus_inst_config (232-356) *)
CheckBusInstConfigCode ==
    {Lk("cb243", "Bus_Config_Status", {"cb248", "cb255"}),
     Lk("cb248", "bus_in_config_lock", {"cb251"}),
     Ul("cb251", "bus_in_config_lock", {"cb248", "cb255"}),
     Ul("cb255", "Bus_Config_Status", {"cb264"}),
     Lk("cb264", "revplay_lock", {"cb266"}),
     Ul("cb266", "revplay_lock", {"cb267"}),
     Lk("cb267", "out_in_use_lock", {"cb269", "cb273"}),
     Lk("cb269", "to_out_lock", {"cb271"}),
     Ul("cb271", "to_out_lock", {"cb273"}),
     Ul("cb273", "out_in_use_lock", {"cb274"}),
     Lk("cb274", "aux_out_in_use_lock", {"cb276", "cb280"}),
     Lk("cb276", "to_aux_lock", {"cb278"}),
     Ul("cb278", "to_aux_lock", {"cb280"}),
     Ul("cb280", "aux_out_in_use_lock", {"cb264", "cb306", "cb316", "cb355"}),
     Rt("cb306"),
     Lk("cb316", "bus_in_config_lock", {"cb321", "cb336"}),
     Lk("cb321", "has_parent_lock", {"cb326", "cb330"}),
     Lk("cb326", "revplay_lock", {"cb328"}),
     Ul("cb328", "revplay_lock", {"cb330"}),
     Ul("cb330", "has_parent_lock", {"cb336"}),
     Ul("cb336", "bus_in_config_lock", {"cb306", "cb316", "cb355"}),
     Rt("cb355")}

(* insert_bus_slot (363-449); the Lock of line 424 is released where the
   function returns (438, 444, 448) *)
InsertBusSlotCode ==
    {Sk("ib369", {"ib371", "ib414"}),
     Lk("ib371", "aux_in_use_lock", {"ib376"}),
     Ul("ib376", "aux_in_use_lock", {"ib371", "ib379", "ib414"}),
     Lk("ib379", "has_parent_lock", {"ib386"}),
     Ul("ib386", "has_parent_lock", {"ib388"}),
     Lk("ib388", "bus_in_config_lock", {"ib390"}),
     Ul("ib390", "bus_in_config_lock", {"ib371", "ib379", "ib395", "ib414"}),
     Lk("ib395", "bus_in_config_lock", {"ib402"}),
     Ul("ib402", "bus_in_config_lock", {"ib403"}),
     Lk("ib403", "has_child_lock", {"ib405"}),
     Ul("ib405", "has_child_lock", {"ib406"}),
     Lk("ib406", "aux_in_use_lock", {"ib408"}),
     Ul("ib408", "aux_in_use_lock", {"ib371", "ib379", "ib414"}),
     Lk("ib414", "inst_bus_config_lock", {"ib417", "ib422"}),
     Ul("ib417", "inst_bus_config_lock", {"ib418"}),
     Rt("ib418"),
     Ul("ib422", "inst_bus_config_lock", {"ib424"}),
     Lk("ib424", "inst_bus_config_lock", {"ib448"}),
     Ul("ib448", "inst_bus_config_lock", {"ib449"}),
     Rt("ib449")}

(* bf_traverse (455-471) *)
BfTraverseCode ==
    {Cl("bf466", "cb243", {"bf471"}),
     Rt("bf471")}

(* create_play_order (474-525) *)
CreatePlayOrderCode ==
    {Lk("cp483", "aux_in_use_lock", {"cp485", "cp496"}),
     Lk("cp485", "has_parent_lock", {"cp490", "cp494"}),
     Lk("cp490", "aux_to_aux_lock", {"cp492"}),
     Ul("cp492", "aux_to_aux_lock", {"cp494"}),
     Ul("cp494", "has_parent_lock", {"cp496"}),
     Ul("cp496", "aux_in_use_lock", {"cp483", "cp500"}),
     Lk("cp500", "aux_in_use_lock", {"cp502", "cp523"}),
     Lk("cp502", "has_child_lock", {"cp504", "cp521"}),
     Cl("cp504", "bf466", {"cp508"}),
     Lk("cp508", "revplay_lock", {"cp514", "cp518"}),
     Lk("cp514", "aux_to_aux_lock", {"cp516"}),
     Ul("cp516", "aux_to_aux_lock", {"cp518"}),
     Ul("cp518", "revplay_lock", {"cp508", "cp521"}),
     Ul("cp521", "has_child_lock", {"cp523"}),
     Ul("cp523", "aux_in_use_lock", {"cp500", "cp525"}),
     Rt("cp525")}

(* get_bus_config (532-657); the Lock of line 544 is released where the
   function returns (554, 656) or is left by the throw of RTExit (630) *)
GetBusConfigCode ==
    {Lk("gb544", "bus_slot_lock", {"gb550"}),
     Lk("gb550", "inst_bus_config_lock", {"gb553", "gb557"}),
     Ul("gb553", "inst_bus_config_lock", {"gb554"}),
     Ul("gb554", "bus_slot_lock", {"gb657"}),
     Ul("gb557", "inst_bus_config_lock", {"gb564"}),
     Lk("gb564", "Bus_Config_Status", {"gb568", "gb589"}),
     Lk("gb568", "aux_to_aux_lock", {"gb570"}),
     Ul("gb570", "aux_to_aux_lock", {"gb571"}),
     Lk("gb571", "to_aux_lock", {"gb573"}),
     Ul("gb573", "to_aux_lock", {"gb574"}),
     Lk("gb574", "to_out_lock", {"gb576"}),
     Ul("gb576", "to_out_lock", {"gb577"}),
     Lk("gb577", "out_in_use_lock", {"gb579"}),
     Ul("gb579", "out_in_use_lock", {"gb582"}),
     Lk("gb582", "bus_in_config_lock", {"gb585"}),
     Ul("gb585", "bus_in_config_lock", {"gb568", "gb589"}),
     Ul("gb589", "Bus_Config_Status", {"gb592", "gb625"}),
     Lk("gb592", "out_in_use_lock", {"gb594"}),
     Ul("gb594", "out_in_use_lock", {"gb595"}),
     Lk("gb595", "to_out_lock", {"gb597"}),
     Ul("gb597", "to_out_lock", {"gb592", "gb625"}),
     Cl("gb625", "cb243", {"gb626"}),
     Sk("gb626", {"gb627", "gb656"}),
     Cl("gb627", "ib369", {"gb656"}),
     Ul("gb656", "bus_slot_lock", {"gb657"}),
     Rt("gb657")}

(* bus_config (821-1025); the Lock of line 852 is released where the function
   returns (1024) or is left by the throw of RTExit; the calls of the print
   functions are compiled in by PRINTALL, PRINTPLAY and DEBUG *)
BusConfigCode ==
    {Lk("bc852", "bus_slot_lock", {"bc857"}),
     Sk("bc857", {"bc919", "bc960", "bc989", "bc1024"}),
     Lk("bc919", "out_in_use_lock", {"bc921"}),
     Ul("bc921", "out_in_use_lock", {"bc857", "bc919"}),
     Lk("bc960", "aux_out_in_use_lock", {"bc962"}),
     Ul("bc962", "aux_out_in_use_lock", {"bc857", "bc960"}),
     Cl("bc989", "cb243", {"bc990"}),
     Sk("bc990", {"bc991", "bc993"}),
     Cl("bc991", "ib369", {"bc993"}),
     Sk("bc993", {"bc1011", "bc1015", "bc1024"}),
     Cl("bc1011", "pc148", {"bc1012"}),
     Cl("bc1012", "pp128", {"bc1015"}),
     Cl("bc1015", "cp483", {"bc1017", "bc1020", "bc1024"}),
     Cl("bc1017", "po218", {"bc1020", "bc1024"}),
     Cl("bc1020", "pi189", {"bc1024"}),
     Ul("bc1024", "bus_slot_lock", {"bc1025"}),
     Rt("bc1025")}

LockCode ==
    PrintParentsCode \cup PrintChildrenCode \cup PrintInstBusConfigCode \cup
    PrintPlayOrderCode \cup CheckBusInstConfigCode \cup InsertBusSlotCode \cup
    BfTraverseCode \cup CreatePlayOrderCode \cup GetBusConfigCode \cup BusConfigCode

Stmt(l) == CHOOSE s \in LockCode : s.l = l

Mutexes == {s.m : s \in {c \in LockCode : c.op = "lock"}}

(* the functions a thread may call, by the label of their first statement *)
LockEntries == {"bc852", "gb544", "pp128", "pc148", "po218", "pi189"}

LockThreads == {"t1", "t2", "t3"}

IdleThread == [pc |-> "idle", stack |-> << >>, held |-> << >>]

InitMutex ==
    /\ mutexOwner = [m \in Mutexes |-> "free"]
    /\ lockThread = [t \in LockThreads |-> IdleThread]

At(t, op) == lockThread[t].pc # "idle" /\ Stmt(lockThread[t].pc).op = op

(* the held list without its last m *)
RECURSIVE Released(_, _)
Released(held, m) ==
    IF held = << >> THEN << >>
    ELSE IF held[Len(held)] = m THEN SubSeq(held, 1, Len(held) - 1)
    ELSE Append(Released(SubSeq(held, 1, Len(held) - 1), m), held[Len(held)])

(* a thread enters one of the functions *)
MutexStart(t, entry) ==
    /\ lockThread[t].pc = "idle"
    /\ lockThread' = [lockThread EXCEPT ![t].pc = entry]
    /\ UNCHANGED mutexOwner

(* pthread_mutex_lock, Lock::Lock: waits until the mutex is free *)
MutexLock(t) ==
    /\ At(t, "lock")
    /\ LET s == Stmt(lockThread[t].pc)
       IN /\ mutexOwner[s.m] = "free"
          /\ mutexOwner' = [mutexOwner EXCEPT ![s.m] = t]
          /\ \E n \in s.next :
                lockThread' = [lockThread EXCEPT ![t].pc = n,
                                                 ![t].held = Append(@, s.m)]

(* pthread_mutex_unlock, Lock::~Lock *)
MutexUnlock(t) ==
    /\ At(t, "unlock")
    /\ LET s == Stmt(lockThread[t].pc)
       IN /\ mutexOwner' = [mutexOwner EXCEPT ![s.m] = "free"]
          /\ \E n \in s.next :
                lockThread' = [lockThread EXCEPT ![t].pc = n,
                                                 ![t].held = Released(@, s.m)]

(* a call: the statement after it is where the callee returns to *)
MutexCall(t) ==
    /\ At(t, "call")
    /\ LET s == Stmt(lockThread[t].pc)
       IN \E n \in s.next :
             lockThread' = [lockThread EXCEPT ![t].pc = s.m,
                                              ![t].stack = <<n>> \o @]
    /\ UNCHANGED mutexOwner

MutexReturn(t) ==
    /\ At(t, "return")
    /\ lockThread' =
          [lockThread EXCEPT
             ![t].pc = IF lockThread[t].stack = << >> THEN "idle"
                       ELSE Head(lockThread[t].stack),
             ![t].stack = IF @ = << >> THEN << >> ELSE Tail(@)]
    /\ UNCHANGED mutexOwner

(* a branch that takes no mutex *)
MutexSkip(t) ==
    /\ At(t, "skip")
    /\ \E n \in Stmt(lockThread[t].pc).next :
          lockThread' = [lockThread EXCEPT ![t].pc = n]
    /\ UNCHANGED mutexOwner

Init ==
    /\ InitBus /\ InitMix /\ InitLock /\ InitMinc
    /\ InitTempo /\ InitOption /\ InitBuiltin /\ InitMutex

(* ------------ specification: the single-threaded mixer ----------------- *)
NextST ==
    /\ nAdds < MaxAdds
    /\ \E c \in AddCalls : AddToBusSingle(c)
    /\ UNCHANGED <<busVars, lockVars, mincVars, cmdVars>>

SpecST == Init /\ [][NextST]_vars

(* ------------- specification: the multi-threaded mixer ----------------- *)
NextMT ==
    \/ /\ nAdds < MaxAdds
       /\ \E t \in Threads, c \in AddCalls : AddToBusWorker(t, c)
       /\ UNCHANGED <<busVars, lockVars, mincVars, cmdVars>>
    \/ /\ MixToBus
       /\ UNCHANGED <<busVars, lockVars, mincVars, cmdVars>>

SpecMT == Init /\ [][NextMT]_vars

(* ---------------------- specification: the bus graph ------------------- *)
Next ==
    /\ nCalls < MaxCalls
    /\ \E names \in GraphConfigs : BusConfig("A", names)
    /\ UNCHANGED <<mixVars, lockVars, mincVars, cmdVars>>

Spec == Init /\ [][Next]_vars

(* --------------- specification: instruments and their slots ------------ *)
InstConfigs ==
    {<<Bus("BUS_AUX_IN", 0), Bus("BUS_AUX_OUT", 1)>>,
     <<Bus("BUS_AUX_IN", 1), Bus("BUS_AUX_OUT", 0)>>,
     <<Bus("BUS_IN", 0), BusRange("BUS_OUT", 0, NChans - 1)>>,
     <<Bus("BUS_NONE_IN", 0), Bus("BUS_OUT", 0)>>}

NextInst ==
    \/ /\ nCalls < MaxCalls
       /\ \E n \in {"A", "B"}, names \in InstConfigs : BusConfig(n, names)
       /\ UNCHANGED <<mixVars, lockVars, mincVars, cmdVars>>
    \/ /\ \E n \in {"A", "B"}, in_chans \in {0, NChans} :
             /\ nCalls < MaxCalls \/ FindSlot(Inst_Bus_Config, n).found
             /\ GetBusConfig(n, in_chans)
       /\ UNCHANGED <<mixVars, lockVars, mincVars, cmdVars>>

SpecInst == Init /\ [][NextInst]_vars

(* ------------------ specification: the bus cycle scenario -------------- *)
CallA == [instname |-> "A", names |-> <<Bus("BUS_AUX_IN", 0), Bus("BUS_AUX_OUT", 1)>>]
CallB == [instname |-> "B", names |-> <<Bus("BUS_AUX_IN", 1), Bus("BUS_AUX_OUT", 0)>>]
CallC == [instname |-> "C", names |-> <<Bus("BUS_AUX_IN", 0), Bus("BUS_AUX_OUT", 0)>>]

NextS3 ==
    \/ /\ nCalls < MaxCalls
       /\ \E c \in {CallA, CallB, CallC} : BusConfigRecorded(c.instname, c.names)
       /\ UNCHANGED <<mixVars, lockVars, mincVars, cmdVars>>
    \/ /\ \E n \in InstNames :
             /\ FindSlot(Inst_Bus_Config, n).found
             /\ GetBusConfig(n, 0)
       /\ UNCHANGED <<mixVars, lockVars, mincVars, cmdVars>>

SpecS3 == Init /\ [][NextS3]_vars

(* --------------- specification: callers and bus_slot_lock -------------- *)
LockCalls ==
    {[instname |-> "A", names |-> <<Bus("BUS_AUX_IN", 0), Bus("BUS_AUX_OUT", 1)>>],
     [instname |-> "B", names |-> <<Bus("BUS_AUX_IN", 1), Bus("BUS_AUX_OUT", 0)>>],
     [instname |-> "B", names |-> <<Bus("BUS_IN", 0), Bus("BUS_AUX_OUT", 0)>>]}

NextLock ==
    \/ /\ \E t \in Callers, c \in LockCalls : BcCall(t, c.instname, c.names)
       /\ UNCHANGED <<mixVars, mincVars, cmdVars>>
    \/ /\ \E t \in Callers : BcAcquire(t)
       /\ UNCHANGED <<mixVars, mincVars, cmdVars>>
    \/ /\ \E t \in Callers : BcParse(t)
       /\ UNCHANGED <<mixVars, mincVars, cmdVars>>
    \/ /\ \E t \in Callers : BcCheck(t)
       /\ UNCHANGED <<mixVars, mincVars, cmdVars>>
    \/ /\ \E t \in Callers : BcInsert(t)
       /\ UNCHANGED <<mixVars, mincVars, cmdVars>>
    \/ /\ \E t \in Callers : BcAllocate(t)
       /\ UNCHANGED <<mixVars, mincVars, cmdVars>>
    \/ /\ \E t \in Callers : BcOrder(t)
       /\ UNCHANGED <<mixVars, mincVars, cmdVars>>
    \/ /\ \E t \in Callers : BcReturn(t)
       /\ UNCHANGED <<mixVars, mincVars, cmdVars>>
    \/ /\ \E t \in Callers, n \in {"A", "B"} : GetCall(t, n)
       /\ UNCHANGED <<mixVars, mincVars, cmdVars>>
    \/ /\ \E t \in Callers : GetAcquire(t)
       /\ UNCHANGED <<mixVars, mincVars, cmdVars>>
    \/ /\ \E t \in Callers : GetLookup(t)
       /\ UNCHANGED <<mixVars, mincVars, cmdVars>>
    \/ /\ \E t \in Callers : GetDefault(t)
       /\ UNCHANGED <<mixVars, mincVars, cmdVars>>

SpecLock == Init /\ [][NextLock]_vars

(* ------------------ specification: the bus names parsed ---------------- *)
BusTypes == {"BUS_IN", "BUS_OUT", "BUS_AUX_IN", "BUS_AUX_OUT", "BUS_NONE_IN", "BUS_NONE_OUT"}

(* "0", "0-1", the reversed "1-0", and a range that ends at busCount *)
ParseRanges == {<<0, 0>>, <<0, 1>>, <<1, 0>>, <<0, BusCount>>}

ParseConfigs ==
    {<<BusRange(t, r[1], r[2])>> : t \in BusTypes, r \in ParseRanges}
    \cup {<<BusRange(t, r[1], r[2]), BusRange(u, q[1], q[2])>> :
             t \in BusTypes, r \in ParseRanges, u \in BusTypes, q \in {<<0, 0>>, <<1, 0>>}}

NextParse ==
    /\ Len(hist) < MaxParseCalls
    /\ nCalls < MaxCalls
    /\ \E names \in ParseConfigs : BusConfigRecorded("A", names)
    /\ UNCHANGED <<mixVars, lockVars, mincVars, cmdVars>>

SpecParse == Init /\ [][NextParse]_vars

(* ------------- specification: ranges that repeat and overlap ----------- *)
(* "-1" (read as -1 to 1: the '-' found for the range is the sign), "0-1",
   "1-2", the whole "0-BusCount-1", and the reversed "2-0" *)
RangeTypes == {"BUS_IN", "BUS_OUT", "BUS_AUX_IN", "BUS_AUX_OUT"}
RangesDrawn == {<<-1, 1>>, <<0, 1>>, <<1, 2>>, <<0, BusCount - 1>>, <<2, 0>>}

RangeConfigs ==
    {<<BusRange(t, r[1], r[2])>> : t \in RangeTypes, r \in RangesDrawn}
    \cup {<<BusRange(t, r[1], r[2]), BusRange(t, q[1], q[2])>> :
             t \in RangeTypes, r \in RangesDrawn, q \in RangesDrawn}
    \cup {<<BusRange(t, 0, 1), BusRange(t, 0, 1), BusRange(t, 0, 1)>> : t \in RangeTypes}
    \cup {<<BusRange("BUS_AUX_IN", r[1], r[2]), BusRange("BUS_AUX_OUT", q[1], q[2])>> :
             r \in RangesDrawn, q \in RangesDrawn}

NextRanges ==
    /\ Len(hist) < MaxParseCalls
    /\ nCalls < MaxCalls
    /\ \E names \in RangeConfigs : BusConfigRecorded("A", names)
    /\ UNCHANGED <<mixVars, lockVars, mincVars, cmdVars>>

SpecRanges == Init /\ [][NextRanges]_vars

(* ------------------ specification: calls of functions ----------------- *)
NextCalls ==
    \/ /\ \E i \in CallStatements : Statement(i)
       /\ UNCHANGED <<busVars, mixVars, lockVars, cmdVars>>
    \/ /\ ClearTreeState
       /\ UNCHANGED <<busVars, mixVars, lockVars, cmdVars>>

SpecCalls == Init /\ [][NextCalls]_vars

(* ----------------- specification: stores and list writes --------------- *)
NextLists ==
    \/ /\ \E i \in ListStatements : Statement(i)
       /\ UNCHANGED <<busVars, mixVars, lockVars, cmdVars>>
    \/ /\ ClearTreeState
       /\ UNCHANGED <<busVars, mixVars, lockVars, cmdVars>>

SpecLists == Init /\ [][NextLists]_vars

(* ------------------- specification: the tempo map --------------------- *)
(* The argument lists tempo is called with: none (the map is cleared); one
   pair; the scenario map; a slowing map; a map with a repeated time that
   starts after 0; a negative tempo; a zero tempo second and first; and
   eleven pairs, the eleventh with a zero tempo or with none. *)
ElevenPairs == <<0, 60, 1, 60, 2, 60, 3, 60, 4, 60, 5, 60, 6, 60, 7, 60, 8, 60, 9, 60, 10, 0>>
(* eleven pairs with no zero tempo *)
ElevenTempi == <<0, 60, 1, 60, 2, 60, 3, 60, 4, 60, 5, 60, 6, 60, 7, 60, 8, 60, 9, 60, 10, 120>>
TempoArgs ==
    {<<>>, <<0, 60>>, <<0, 60, 4, 120>>, <<0, 120, 4, 60>>, <<1, 60, 1, 120, 3, 30>>,
     <<0, -60>>, <<0, 60, 4, 0>>, <<0, 0, 4, 60>>, ElevenPairs, ElevenTempi}
QueryPoints == {Num(-2), Num(0), Num(3), Num(4), Num(5), Fin(Rat(157, 50))}

NextTempo ==
    \/ /\ \E p0 \in {60, 120} : Tbase(p0)
       /\ UNCHANGED <<busVars, mixVars, lockVars, mincVars, optionVars, builtinCall, mutexVars>>
    \/ /\ \E p \in TempoArgs : Tempo(p)
       /\ UNCHANGED <<busVars, mixVars, lockVars, mincVars, optionVars, builtinCall, mutexVars>>
    \/ /\ \E p0 \in QueryPoints : TQuery(p0)
       /\ UNCHANGED <<busVars, mixVars, lockVars, mincVars, optionVars, builtinCall, mutexVars>>

SpecTempo == Init /\ [][NextTempo]_vars

(* -------------------- specification: the options ----------------------- *)
Word(opt) == [opt |-> opt, eq |-> FALSE, val |-> ""]
KeyValue(opt, val) == [opt |-> opt, eq |-> TRUE, val |-> val]
(* the argument lists set_option is called with: every entry of param_list
   alone, two in lower case, key=value forms, an unknown word, and pairs *)
OptionArgs ==
    {<<Word(param_list[j].arg)>> : j \in 1 .. num_params}
    \cup {<<Word("record_on")>>, <<Word("audio_off")>>, <<Word("BOGUS")>>,
          <<KeyValue("DEVICE", "MOTU 828")>>, <<KeyValue("INDEVICE", "")>>,
          <<KeyValue("RECORD_ON", "1")>>,
          <<Word("RECORD_OFF"), Word("FULL_DUPLEX_ON")>>,
          <<Word("PLAY_OFF"), Word("FULL_DUPLEX_OFF")>>,
          <<Word("CLOBBER_ON"), Word("BOGUS")>>}
BoolOptionNames ==
    {"print", "report_clipping", "check_peaks", "clobber", "audio", "play", "record"}

NextOption ==
    \/ /\ \E pp \in OptionArgs : SetOption(pp)
       /\ UNCHANGED <<busVars, mixVars, lockVars, mincVars, tempoVars, builtinCall, mutexVars>>
    \/ /\ Rtsetparams
       /\ UNCHANGED <<busVars, mixVars, lockVars, mincVars, tempoVars, builtinCall, mutexVars>>
    \/ /\ \E n \in BoolOptionNames, v \in BOOLEAN : SetBoolOption(n, v)
       /\ UNCHANGED <<busVars, mixVars, lockVars, mincVars, tempoVars, builtinCall, mutexVars>>

SpecOption == Init /\ [][NextOption]_vars

(* -------------------- specification: the builtins ---------------------- *)
BuiltinStrings == {BString(<<"a", "b", "c">>), BString(<<>>)}
BuiltinIndices == {BFloat(k, 1) : k \in -1 .. 4} \cup {BFloat(3, 2)}
BuiltinFractions == {BFloat(-1, 1), BFloat(0, 1), BFloat(1, 4), BFloat(1, 1), BFloat(2, 1)}
BuiltinItems ==
    {BFloat(2, 1), BFloat(9, 1), BString(<<"a">>), BList(1), BList(3), BList(4),
     BHandle(2), BStruct(1)}
BuiltinListArgs == {BList(r) : r \in 0 .. Len(BuiltinLists)}

NextBuiltin ==
    \/ /\ \E l \in BuiltinListArgs \cup {BFloat(1, 1)}, f \in BuiltinFractions :
             CallBuiltin("interp", <<l, f>>)
       /\ UNCHANGED <<busVars, mixVars, lockVars, mincVars, tempoVars, optionVars, mutexVars>>
    \/ /\ \E l \in BuiltinListArgs \cup {BFloat(1, 1)}, item \in BuiltinItems :
             CallBuiltin("index", <<l, item>>)
       /\ UNCHANGED <<busVars, mixVars, lockVars, mincVars, tempoVars, optionVars, mutexVars>>
    \/ /\ \E s \in BuiltinStrings \cup {NullString}, i, j \in BuiltinIndices :
             CallBuiltin("substring", <<s, i, j>>)
       /\ UNCHANGED <<busVars, mixVars, lockVars, mincVars, tempoVars, optionVars, mutexVars>>
    \/ /\ \E fn \in {"interp", "index", "substring"} : CallBuiltin(fn, <<BList(1)>>)
       /\ UNCHANGED <<busVars, mixVars, lockVars, mincVars, tempoVars, optionVars, mutexVars>>
    \/ /\ \E s \in BuiltinStrings, i, j \in BuiltinIndices : SubstringSplit(s, i, j)
       /\ UNCHANGED <<busVars, mixVars, lockVars, mincVars, tempoVars, optionVars, mutexVars>>

SpecBuiltin == Init /\ [][NextBuiltin]_vars

(* ------------------ specification: the bus graph mutexes --------------- *)
NextMutex ==
    \/ /\ \E t \in LockThreads, entry \in LockEntries : MutexStart(t, entry)
       /\ UNCHANGED <<busVars, mixVars, lockVars, mincVars, tempoVars, optionVars, builtinCall>>
    \/ /\ \E t \in LockThreads : MutexLock(t)
       /\ UNCHANGED <<busVars, mixVars, lockVars, mincVars, tempoVars, optionVars, builtinCall>>
    \/ /\ \E t \in LockThreads : MutexUnlock(t)
       /\ UNCHANGED <<busVars, mixVars, lockVars, mincVars, tempoVars, optionVars, builtinCall>>
    \/ /\ \E t \in LockThreads : MutexCall(t)
       /\ UNCHANGED <<busVars, mixVars, lockVars, mincVars, tempoVars, optionVars, builtinCall>>
    \/ /\ \E t \in LockThreads : MutexReturn(t)
       /\ UNCHANGED <<busVars, mixVars, lockVars, mincVars, tempoVars, optionVars, builtinCall>>
    \/ /\ \E t \in LockThreads : MutexSkip(t)
       /\ UNCHANGED <<busVars, mixVars, lockVars, mincVars, tempoVars, optionVars, builtinCall>>

SpecMutex == Init /\ [][NextMutex]_vars

(* ------------------------------ the claims ----------------------------- *)
(* the parents In_Config[k] records: the bus_count entries of its bus_list *)
Parents(k) ==
    {Get(BusConfigs[k].In_Config.bus_list, i) :
        i \in 0 .. (BusConfigs[k].In_Config.bus_count - 1)}

RECURSIVE ParentClosure(_)
ParentClosure(S) ==
    LET T == S \cup UNION {Parents(k) : k \in S}
    IN IF T = S THEN S ELSE ParentClosure(T)

(* the transitive parent set of k *)
Ancestors(k) == ParentClosure(Parents(k))

(* C1: after any sequence of bus_config calls, accepted or rejected, no aux bus
   is in its own transitive parent set as recorded in In_Config. *)
C1_Acyclic == \A k \in Buses : k \notin Ancestors(k)

(* C1 witness: a call was rejected for a loop while some bus had a grandparent *)
C1_Witness ==
    /\ lastOp = "bus_config" /\ lastErr = "LOOP_ERR"
    /\ \E c \in Buses : \E b \in Parents(c) : Parents(b) # {}

(* the entries of AuxToAuxPlayList, as the render loop reads them *)
PlayPositions(b) == {i \in 1 .. BusCount : AuxToAuxPlayList[i] = b}
FirstPosition(b) == CHOOSE i \in PlayPositions(b) : \A j \in PlayPositions(b) : i <= j

(* C2: after every accepted bus_config AuxToAuxPlayList is a topological order of
   the aux graph: every parent p in In_Config[c] appears in the list, before c. *)
C2_TopologicalOrder ==
    (lastOp = "bus_config" /\ lastErr = "NO_ERR") =>
        \A c \in Buses : \A p \in Parents(c) :
            /\ PlayPositions(p) # {}
            /\ PlayPositions(c) # {}
            /\ FirstPosition(p) < FirstPosition(c)

(* what C3 lists as the bus graph *)
GraphAsClaimed ==
    <<[b \in Buses |-> <<BusConfigs[b].OutInUse, BusConfigs[b].AuxInUse,
                         BusConfigs[b].AuxOutInUse, BusConfigs[b].HasParent,
                         BusConfigs[b].HasChild, BusConfigs[b].In_Config>>],
      ToOutPlayList, ToAuxPlayList, AuxToAuxPlayList, Inst_Bus_Config>>

(* C3: a bus_config rejected with LOOP_ERR leaves the flags, the In_Config parent
   lists, the three play lists and the slot chains as they were before the call. *)
C3_LoopLeavesGraph ==
    [][(lastOp' = "bus_config" /\ nCalls' = nCalls + 1 /\ lastErr' = "LOOP_ERR")
          => GraphAsClaimed' = GraphAsClaimed]_vars

(* C10: every bus whose AuxInUse or AuxOutInUse flag is set has had its aux buffer
   allocated by allocate_aux_buffer. *)
C10_AuxAllocated ==
    \A k \in Buses :
        (BusConfigs[k].AuxInUse \/ BusConfigs[k].AuxOutInUse) => k \in aux_allocated

(* C5: get_bus_config(name), for a name some accepted bus_config has configured,
   returns the slot built by the most recent accepted bus_config for that name,
   and synthesizes no default. *)
C5_GetReturnsLatest ==
    /\ \A n \in InstNames :
          lastAccepted[n] # 0 =>
              \E f \in {FindSlot(Inst_Bus_Config, n)} :
                  f.found /\ f.slot.id = lastAccepted[n]
    /\ (lastOp = "get_bus_config" /\ lastAccepted[ret.inst_name] # 0) =>
          ~ret.synthesized /\ ret.slot.id = lastAccepted[ret.inst_name]

(* C5 witness: the queried instrument comes second in the queue, after another
   instrument's entry, and has been configured twice *)
C5_Witness ==
    /\ lastOp = "get_bus_config"
    /\ Len(Inst_Bus_Config) = 2
    /\ Inst_Bus_Config[2].inst_name = ret.inst_name
    /\ lastAccepted[Inst_Bus_Config[1].inst_name] = 1
    /\ lastAccepted[ret.inst_name] = 3
    /\ ret.slot.id = 3

HistStarts(calls) ==
    /\ Len(hist) >= Len(calls)
    /\ \A i \in 1 .. Len(calls) :
          hist[i].instname = calls[i].instname /\ hist[i].names = calls[i].names

(* C4 as claimed: A (aux 0 in, aux 1 out) is accepted, then B (aux 1 in, aux 0 out)
   is accepted too, then C (aux 0 in, aux 0 out) is rejected with LOOP_ERR and the
   graph still holds the slots of A and B. *)
C4_ScenarioAsClaimed ==
    /\ HistStarts(<<CallA>>) => hist[1].err = "NO_ERR"
    /\ HistStarts(<<CallA, CallB>>) => hist[2].err = "NO_ERR"
    /\ HistStarts(<<CallA, CallB, CallC>>) =>
          /\ hist[3].err = "LOOP_ERR"
          /\ FindSlot(Inst_Bus_Config, "A").found
          /\ FindSlot(Inst_Bus_Config, "B").found

(* C4 amended: A is accepted; B, which feeds aux 1 back into aux 0, is rejected
   with LOOP_ERR, and so is C; afterwards the graph still holds the slot of A
   (get_bus_config returns it) and no slot of B or C. *)
C4_ScenarioAmended ==
    /\ HistStarts(<<CallA>>) => hist[1].err = "NO_ERR"
    /\ HistStarts(<<CallA, CallB>>) => hist[2].err = "LOOP_ERR"
    /\ HistStarts(<<CallA, CallB, CallC>>) =>
          /\ hist[3].err = "LOOP_ERR"
          /\ Len(hist) = 3 =>
                /\ \E f \in {FindSlot(Inst_Bus_Config, "A")} :
                      /\ f.found /\ f.slot.id = 1
                      /\ f.slot.auxin_count = 1 /\ Get(f.slot.auxin, 0) = 0
                      /\ f.slot.auxout_count = 1 /\ Get(f.slot.auxout, 0) = 1
                /\ ~FindSlot(Inst_Bus_Config, "B").found
                /\ ~FindSlot(Inst_Bus_Config, "C").found
                /\ lastOp = "get_bus_config" => ret.inst_name = "A" /\ ret.slot.id = 1

(* C4 witness: the three calls were made and get_bus_config("A") was called *)
C4_Witness ==
    /\ HistStarts(<<CallA, CallB, CallC>>) /\ Len(hist) = 3
    /\ lastOp = "get_bus_config" /\ ret.inst_name = "A"

(* what the call c adds to frame f of the buffer (type, bus): src[i * chans]
   at frame offset + i, for 0 <= i < endfr - offset *)
CallAdds(c, type, bus, f) ==
    IF c.type = type /\ c.bus = bus /\ f >= c.offset /\ f < c.endfr
    THEN Sample(c.src + (f - c.offset) * c.chans)
    ELSE 0

(* what the queued record m adds to frame f of the buffer (type, bus) *)
RecordAdds(m, type, bus, f) ==
    IF m.dest.type = type /\ m.dest.bus = bus /\ f >= m.dest.at /\ f < m.dest.at + m.frames
    THEN Sample(m.src + (f - m.dest.at) * m.channels)
    ELSE 0

RECURSIVE RecordsAdd(_, _, _, _)
RecordsAdd(records, type, bus, f) ==
    IF records = << >> THEN 0
    ELSE RecordAdds(Head(records), type, bus, f) + RecordsAdd(Tail(records), type, bus, f)

(* the records of all threads' vectors, thread 0 first, each vector in insertion order *)
RECURSIVE QueuedFrom(_)
QueuedFrom(i) == IF i >= RT_THREAD_COUNT THEN << >> ELSE mixVectors[i] \o QueuedFrom(i + 1)

AllVectorsEmpty == \A t \in Threads : mixVectors[t] = << >>

(* C6: in the multi-threaded build addToBus changes no bus buffer, it only
   appends one record to the calling thread's mixVectors entry; the bus buffers
   change only in mixToBus, which applies every queued record exactly once,
   thread 0's vector first and each vector in insertion order, and leaves all
   the vectors empty. *)
C6_AddQueuesMixApplies ==
    [][ /\ (nAdds' = nAdds + 1) =>
            /\ out_buffer' = out_buffer /\ aux_buffer' = aux_buffer
            /\ \E t \in Threads :
                 mixVectors' = [mixVectors EXCEPT ![t] = Append(@, MixData(mixCall'))]
        /\ (nAdds' = nAdds) =>
            /\ mixLog' = QueuedFrom(0)
            /\ \A t \in Threads : mixVectors'[t] = << >>
            /\ \A bus \in Buses, f \in Frames :
                 /\ out_buffer'[bus][f + 1] =
                       out_buffer[bus][f + 1] + RecordsAdd(QueuedFrom(0), "BUS_OUT", bus, f)
                 /\ aux_buffer'[bus][f + 1] =
                       aux_buffer[bus][f + 1] + RecordsAdd(QueuedFrom(0), "BUS_AUX_OUT", bus, f)
      ]_vars

(* one thread queued two different records and mixToBus applied them in that order *)
C6_Witness ==
    /\ AllVectorsEmpty
    /\ Len(mixLog) = 2
    /\ mixLog[2] = MixData(mixCall)
    /\ mixLog[1] # mixLog[2]
    /\ mixLog[1].dest.type = "BUS_AUX_OUT" /\ mixLog[1].dest.bus = 0
    /\ aux_buffer[0][BufSamps] # 0

(* C7: whenever mixToBus has drained the vectors, the bus buffers hold exactly
   what the single-threaded addToBus gives for the same calls, whichever
   threads made them and in whichever order, for every frame count (the loop
   of four frames at a time and the loop over the frames left over). *)
C7_SameAsSingleThreaded == AllVectorsEmpty => Buffers = stBuffers

(* two threads: the call made last was applied first; the first record has a
   frame count that is no multiple of four and above four *)
C7_Witness ==
    /\ AllVectorsEmpty
    /\ nAdds = 2
    /\ Len(mixLog) = 2
    /\ mixLog[1] = MixData(mixCall)
    /\ mixLog[1] # mixLog[2]
    /\ mixLog[2].frames > 4 /\ mixLog[2].frames % 4 # 0
    /\ mixLog[2].channels = MaxChans
    /\ Buffers # ZeroBuffers

(* C9: single-threaded addToBus(type, bus, src, offset, endfr, chans) adds
   src[i * chans] to frame offset + i of the bus buffer for
   0 <= i < endfr - offset, and changes no other frame and no other buffer. *)
C9_AddToBusEffect ==
    [][ (nAdds' = nAdds + 1) =>
           \A bus \in Buses, f \in Frames :
              /\ out_buffer'[bus][f + 1] =
                    out_buffer[bus][f + 1] + CallAdds(mixCall', "BUS_OUT", bus, f)
              /\ aux_buffer'[bus][f + 1] =
                    aux_buffer[bus][f + 1] + CallAdds(mixCall', "BUS_AUX_OUT", bus, f)
      ]_vars

(* a stereo call that starts after frame 0, ends before the block does and
   covers two frames or more has acted *)
C9_Witness ==
    /\ nAdds >= 1
    /\ mixCall.type = "BUS_AUX_OUT"
    /\ mixCall.chans = MaxChans
    /\ mixCall.offset >= 1
    /\ mixCall.endfr < BufSamps
    /\ mixCall.endfr - mixCall.offset >= 2
    /\ aux_buffer[mixCall.bus][mixCall.offset + 2] = Sample(mixCall.src + mixCall.chans)
    /\ aux_buffer[mixCall.bus][mixCall.endfr + 1] = 0

(* C8: bus_config holds bus_slot_lock from before its first bus name until
   create_play_order has finished, and get_bus_config holds it for its whole
   body; so when get_bus_config looks the instrument up, the graph (instrument
   chains, bus flags, play lists) is as a finished call left it, never as a
   bus_config under way has it. *)
C8_LockedSnapshot ==
    /\ \A t \in Callers :
         pc[t] \notin {"idle", "bc_wait", "get_wait"} => bus_slot_lock = t
    /\ \A t \in Callers :
         pc[t] \in {"get_lookup", "get_default"} => Graph = committed

(* a bus_config is between its argument loop and its check, having changed a
   flag, while the other caller is in get_bus_config, waiting for the lock *)
C8_Witness ==
    \E t \in Callers, u \in Callers :
       /\ pc[t] = "bc_check"
       /\ pc[u] = "get_wait"
       /\ bus_slot_lock = t
       /\ Graph # committed
       /\ committed.Inst_Bus_Config # << >>

(* the slot built by the call numbered id is queued for some instrument *)
SlotInstalled(id) ==
    \E n \in 1 .. Len(Inst_Bus_Config) :
       \E m \in 1 .. Len(Inst_Bus_Config[n].slot) : Inst_Bus_Config[n].slot[m].id = id

InClasses(names) ==
    {names[k].type : k \in 1 .. Len(names)} \cap {"BUS_IN", "BUS_AUX_IN", "BUS_NONE_IN"}
OutClasses(names) ==
    {names[k].type : k \in 1 .. Len(names)} \cap {"BUS_OUT", "BUS_AUX_OUT", "BUS_NONE_OUT"}

(* C19: every argument list that names two different input classes (in, aux-in,
   chain-in) or two different output classes (out, aux-out, chain-out), in any
   order, is rejected with PARAM_ERROR and installs no slot. *)
C19_MixedClassesRejected ==
    \A i \in 1 .. Len(hist) :
       (Cardinality(InClasses(hist[i].names)) > 1 \/ Cardinality(OutClasses(hist[i].names)) > 1)
          => (hist[i].err = "PARAM_ERROR" /\ ~SlotInstalled(i))

RangeAsSpecified(busname) ==
    busname.startchan <= busname.endchan /\ busname.endchan < BusCount

(* C20: a call with a bus name whose range a-b is reversed or has an endpoint at
   or beyond busCount is rejected and installs no slot. *)
C20_RangeChecked ==
    \A i \in 1 .. Len(hist) :
       (\E k \in 1 .. Len(hist[i].names) : ~RangeAsSpecified(hist[i].names[k]))
          => (hist[i].err # "NO_ERR" /\ ~SlotInstalled(i))

(* C11: after a Call of a user-defined function that ended with the body or
   with a Ret, from any depth of Blocks and loops, current_scope() is what it
   was before the call. *)
C11_ScopeRestored ==
    \A k \in 1 .. Len(minc.callLog) :
       minc.callLog[k].how \in {"end", "ret"}
          => minc.callLog[k].scopeAfter = minc.callLog[k].scopeBefore

(* deep() was called inside a Block and left through the Ret in its inner Blocks *)
C11_Witness ==
    \E k \in 1 .. Len(minc.callLog) :
       /\ minc.callLog[k].fn = "deep" /\ minc.callLog[k].how = "ret"
       /\ minc.callLog[k].scopeBefore = 1
       /\ minc.callLog[k].value = MincFloat(3)

(* C12: after a Call of a user-defined function ended in any way (the body's
   end, a Ret, an exception out of the prologue or the body),
   sFunctionCallDepth is what it was before the call. *)
C12_DepthRestored ==
    \A k \in 1 .. Len(minc.callLog) :
       minc.callLog[k].depthAfter = minc.callLog[k].depthBefore

Declared(e) == Functions[FunctionIndex(e.fn)].args

(* C13: a call that passes more arguments than the function declares is fatal,
   whatever the declared arity, zero included; with fewer, each missing
   argument is bound to the zero value of its declared type, a warning is
   given and the call proceeds; the Nth declared argument otherwise holds the
   Nth passed value. *)
C13_ArityChecked ==
    \A k \in 1 .. Len(minc.callLog) :
       LET e == minc.callLog[k]
           passed == e.frame.passed
       IN /\ Len(passed) > Len(Declared(e)) => e.how = "prologue"
          /\ (Len(passed) <= Len(Declared(e)) /\ e.how # "prologue")
                => \A a \in 1 .. Len(Declared(e)) :
                      e.frame.bound[a] = IF a <= Len(passed) THEN passed[a]
                                         ELSE NewValue(Declared(e)[a].type)
          /\ (Len(passed) < Len(Declared(e)) /\ e.how # "prologue")
                => e.frame.warnings > 0

IsMethodCall(e) == e.fn # "" /\ Functions[FunctionIndex(e.fn)].isMethod

(* C14: a method call obj.m(args) runs the body with this bound to obj, also
   when the arguments contain method calls on other structs, and leaves the
   this-stack at the depth it had before the call. *)
C14_ThisBound ==
    \A k \in 1 .. Len(minc.callLog) :
       LET e == minc.callLog[k]
       IN (IsMethodCall(e) /\ e.how # "prologue")
             => /\ e.frame.this = e.object
                /\ e.how \in {"ret", "end"}
                /\ e.thisAfter = e.thisBefore
                /\ e.value = SymbolValue(minc, MemberSymbol(e.object.val, "x"))

(* p.pick(q.get()): get ran with this = q, then pick with this = p and y = q.x *)
C14_Witness ==
    /\ Len(minc.callLog) = 2
    /\ minc.callLog[1].fn = "P.get" /\ minc.callLog[1].object = MincStructValue(2)
    /\ minc.callLog[1].value = MincFloat(7)
    /\ minc.callLog[2].fn = "P.pick" /\ minc.callLog[2].object = MincStructValue(1)
    /\ minc.callLog[2].frame.bound = <<MincFloat(7)>>
    /\ minc.callLog[2].value = MincFloat(42)
    /\ minc.sMethodThisSymbols = <<>>

(* the first symbol load the evaluation of an expression makes, if it makes one *)
FirstLoad(n) ==
    CASE n.kind = "NodeCall" -> <<<<"NodeLoadFuncSym", n.target.name, 0>>>>
      [] n.kind = "NodeLoadSym" -> <<<<"NodeLoadSym", n.name, 0>>>>
      [] OTHER -> <<>>

(* C15: a Store evaluates its right-hand side completely, then its left-hand
   side, then writes the right-hand value into the left-hand symbol: of a
   completed store statement the trace starts with the loads of the right-hand
   side and ends with the load of the left-hand symbol and the store into it,
   and the symbol holds the right-hand value whatever the right-hand side did
   to it. *)
C15_RhsFirst ==
    (stmt # 0 /\ Programs[stmt].kind = "NodeStore" /\ minc.exc = "none")
       => LET n == Programs[stmt]
              t == minc.trace
              lhs == lookupSymbol(minc, n.lhs.name)
          IN /\ Len(t) >= 2 + Len(FirstLoad(n.rhs))
             /\ SubSeq(t, 1, Len(FirstLoad(n.rhs))) = FirstLoad(n.rhs)
             /\ t[Len(t) - 1] = <<"NodeAutoDeclLoadSym", n.lhs.name, 0>>
             /\ t[Len(t)][1] = "store" /\ t[Len(t)][2] = n.lhs.name
             /\ SymbolValue(minc, lhs) = minc.v
             /\ n.rhs.kind = "NodeConstf" => minc.v = MincFloat(n.rhs.val)
             /\ n.rhs.kind = "NodeCall" => minc.v = minc.callLog[Len(minc.callLog)].value

(* x = 3; x = setx(): setx stored 5 into the global x and returned 9; x is 9 *)
C15_Witness ==
    /\ stmt = 20
    /\ minc.trace = << <<"NodeLoadFuncSym", "setx", 0>>, <<"NodeAutoDeclLoadSym", "x", 0>>,
                       <<"store", "x", 5>>, <<"NodeAutoDeclLoadSym", "x", 0>>,
                       <<"store", "x", 9>> >>
    /\ SymbolValue(minc, lookupSymbol(minc, "x")) = MincFloat(9)

(* the list a name shows: its elements in order, none for a null list *)
ListShown(name) ==
    LET value == SymbolValue(minc, lookupSymbol(minc, name))
    IN IF value.type = "list" /\ value.val # 0 THEN minc.lists[value.val] ELSE <<>>

(* C16: once a Store has made two names refer to one list, also one that was
   empty or null at the time, every later SubscriptWrite through either name
   shows through the other: both names show the same length and elements. *)
C16_Aliased ==
    \A p \in aliases : \A a \in p : \A b \in p : ListShown(a) = ListShown(b)

(* C17: L[i] = v with i >= len(L) grows L to length exactly i + 1, stores v at
   index i and keeps the elements at 0..len(L)-1; a negative i writes the last
   element instead. *)
C17_SubscriptWrite ==
    \A k \in 1 .. Len(minc.writes) :
       LET w == minc.writes[k]
           len == Len(w.before)
       IN /\ w.index >= len
               => /\ Len(w.after) = w.index + 1
                  /\ w.after[w.index + 1] = w.exp
                  /\ \A j \in 1 .. len : w.after[j] = w.before[j]
          /\ w.index < 0
               => /\ Len(w.after) = (IF len > 0 THEN len ELSE 1)
                  /\ w.after[Len(w.after)] = w.exp
                  /\ \A j \in 1 .. (Len(w.after) - 1) : w.after[j] = w.before[j]

(* a[3] = 7 made a list of no element one of four with 7 last; a[-1] = 9 then
   wrote the last element *)
C17_Witness ==
    /\ stmt = 28
    /\ minc.writes = << [index |-> -1, exp |-> MincFloat(9),
                         before |-> <<MincVoid, MincVoid, MincVoid, MincFloat(7)>>,
                         after |-> <<MincVoid, MincVoid, MincVoid, MincFloat(9)>>] >>
    /\ ListShown("a") = <<MincVoid, MincVoid, MincVoid, MincFloat(9)>>

(* C18: list_stack_ptr stays within 0..MAXSTACK, and no cell of list_stack
   outside 0..MAXSTACK-1 is read or written: a push_list at depth MAXSTACK is
   an error that stores nothing. *)
C18_ListStackInRange ==
    /\ minc.list_stack_ptr \in 0 .. MAXSTACK
    /\ minc.list_stack_range

(* rec() called itself until push_list refused at depth MAXSTACK *)
C18_Witness ==
    /\ minc.died = "stack overflow"
    /\ minc.list_stack_ptr = MAXSTACK
    /\ minc.list_stack_range


(* ------------------------------- C21 ----------------------------------- *)
(* the shape of the default slot: in = 0 .. in_count - 1, out = 0 .. NCHANS - 1,
   no aux bus *)
IsDefaultSlot(slot) ==
    /\ slot.in_count \in 0 .. NChans
    /\ slot.out_count = NChans
    /\ slot.auxin_count = 0 /\ slot.auxout_count = 0
    /\ \A i \in 1 .. slot.in_count : slot.in[i] = i - 1
    /\ \A i \in 1 .. NChans : slot.out[i] = i - 1

(* C21: a get_bus_config(name) for a name without a slot builds the default slot
   (in = 0 .. in_chans - 1, out = 0 .. NCHANS - 1), has it checked and queued
   under the name, and returns it; a get_bus_config(name) for a name with a slot
   returns that slot and changes nothing; and the slot queued for a name stays
   the same one until a bus_config for the name is accepted. *)
C21_DefaultSynthesizedOnce ==
    [][ /\ lastOp' = "get_bus_config" =>
              LET before == FindSlot(Inst_Bus_Config, ret'.inst_name)
                  after == FindSlot(Inst_Bus_Config', ret'.inst_name)
              IN IF before.found
                 THEN /\ ~ret'.synthesized
                      /\ ret'.slot = before.slot
                      /\ Graph' = Graph
                 ELSE /\ ret'.synthesized
                      /\ IsDefaultSlot(ret'.slot)
                      /\ Bus_Config_Status'
                      /\ after.found /\ after.slot = ret'.slot
                      /\ Len(Inst_Bus_Config') = Len(Inst_Bus_Config) + 1
        /\ \A n \in InstNames :
              (FindSlot(Inst_Bus_Config, n).found /\ lastAccepted'[n] = lastAccepted[n])
                  => FindSlot(Inst_Bus_Config', n) = FindSlot(Inst_Bus_Config, n) ]_vars

(* C21 witness: a get_bus_config returns, without building anything, the default
   slot an earlier get_bus_config built for the name, after a bus_config for
   another name has been accepted in between *)
C21_Witness ==
    /\ lastOp = "get_bus_config"
    /\ ~ret.synthesized
    /\ lastAccepted[ret.inst_name] = 0
    /\ IsDefaultSlot(ret.slot)
    /\ ret.slot.in_count = NChans
    /\ ret.slot.id = 1
    /\ nCalls = 2
    /\ \E n \in InstNames : lastAccepted[n] = 2

(* ------------------------------- C22 ----------------------------------- *)
(* no tempo map is set: tempo was never called, or its last call had no argument *)
NoMapSet == ~tempoCall.made \/ tempoCall.p = <<>>

(* C22: whenever no tempo map is set, time_beat(x) is x and beat_time(x) is x,
   for every x. *)
C22_IdentityWithoutMap ==
    (tempoQuery.made /\ NoMapSet) =>
        tempoQuery.x = tempoQuery.p0 /\ tempoQuery.y = tempoQuery.p0

(* ------------------------------- C23 ----------------------------------- *)
(* the tempo values of an argument list *)
Tempi(p) == {p[2 * i] : i \in 1 .. (Len(p) \div 2)}

(* C23: a tempo call fails whenever one of the tempo values passed is 0, at
   whatever place in the list, and the map time_beat and beat_time use never
   holds a zero tempo. *)
C23_ZeroTempoRejected ==
    /\ (tempoCall.made /\ 0 \in Tempi(tempoCall.p)) => tempoCall.outcome = "died"
    /\ tempoState.tset = 1 =>
          \A m \in 0 .. tempoState.npts : ~FIsZero(tempoState.temp[m])

(* ------------------------------- C24 ----------------------------------- *)
(* a legal map: nondecreasing times, nonzero tempi *)
LegalMap(p) ==
    /\ Len(p) > 0
    /\ 0 \notin Tempi(p)
    /\ \A i, j \in 1 .. (Len(p) \div 2) : i <= j => p[2 * i - 1] <= p[2 * j - 1]
Tolerance == Fin(Rat(1, 1000000))
Within(x, y) == FLe(FSub(x, y), Tolerance) /\ FLe(FSub(y, x), Tolerance)
(* the beats and the times the round trips are taken at; at these times every
   root time_beat takes is rational *)
Beats == {Num(0), Fin(Rat(1, 2)), Num(1), Num(2), Num(3), Fin(Rat(8, 3))}
Times == {Num(0), Num(4), Num(5)}

(* C24: under a legal tempo map, time_beat(beat_time(b)) is b within 1e-6 for
   every b >= 0, and beat_time(time_beat(t)) is t within 1e-6 for every t >= 0. *)
C24_RoundTrip ==
    (tempoCall.made /\ tempoCall.outcome = "set" /\ LegalMap(tempoCall.p)) =>
        /\ \A b \in Beats : Within(time_beat(tempoState, beat_time(tempoState, b)), b)
        /\ \A t \in Times : Within(beat_time(tempoState, time_beat(tempoState, t)), t)

(* ------------------------------- C25 ----------------------------------- *)
(* an argument that would turn recording on *)
TurnsRecordOn(a) == ToUpper(a.opt) \in {"RECORD_ON", "FULL_DUPLEX_ON"}

(* C25: once rtsetparams has been called, a set_option with an argument that
   would turn recording on (RECORD_ON or FULL_DUPLEX_ON) returns -1 and leaves
   the record option as it was before the call. *)
C25_RecordAfterSetup ==
    (/\ optionCall.made /\ optionCall.called
     /\ \E i \in 1 .. Len(optionCall.pp) : TurnsRecordOn(optionCall.pp[i])) =>
        /\ optionCall.ret = -1
        /\ options.record = optionCall.before.record

(* ------------------------------- C26 ----------------------------------- *)
(* the option a word K_ON or K_OFF names, by its key in the configuration file *)
KeyOf(opt) ==
    CASE opt \in {"AUDIO_ON", "AUDIO_OFF"} -> "audio"
      [] opt \in {"PLAY_ON", "PLAY_OFF"} -> "play"
      [] opt \in {"RECORD_ON", "RECORD_OFF"} -> "record"
      [] opt \in {"CLOBBER_ON", "CLOBBER_OFF"} -> "clobber"
      [] opt \in {"REPORT_CLIPPING_ON", "REPORT_CLIPPING_OFF"} -> "report_clipping"
      [] opt \in {"CHECK_PEAKS_ON", "CHECK_PEAKS_OFF"} -> "check_peaks"
      [] OTHER -> ""
IsOn(opt) ==
    opt \in {"AUDIO_ON", "PLAY_ON", "RECORD_ON", "CLOBBER_ON", "REPORT_CLIPPING_ON",
             "CHECK_PEAKS_ON"}

(* C26: before rtsetparams, set_option("K_ON") sets option K to true and
   set_option("K_OFF") sets it to false, for K among audio, play, record,
   clobber, report_clipping and check_peaks, and every other option is left
   as it was. *)
C26_BoolOptionSet ==
    (/\ optionCall.made /\ ~optionCall.called
     /\ Len(optionCall.pp) = 1 /\ ~optionCall.pp[1].eq
     /\ KeyOf(optionCall.pp[1].opt) # "") =>
        LET opt == optionCall.pp[1].opt
        IN /\ get_bool_option(options, KeyOf(opt)) = IsOn(opt)
           /\ options = set_bool_option(optionCall.before, KeyOf(opt), IsOn(opt))

(* ------------------------------- C27 ----------------------------------- *)
(* type-matched equality: by value for Float and String, by identity for List
   and Handle *)
TypeMatchedEqual(x, y) ==
    \/ x.type = "float" /\ y.type = "float" /\ x.num = y.num
    \/ x.type = "string" /\ y.type = "string" /\ x.text = y.text
    \/ x.type = "list" /\ y.type = "list" /\ x.ref = y.ref
    \/ x.type = "handle" /\ y.type = "handle" /\ x.ref = y.ref
(* the elements of a List: a list variable that was declared and never given a
   list has none *)
ListElements(l) == IF l.null THEN <<>> ELSE BuiltinLists[l.ref]

(* C27: index(list, item) is the smallest i with list[i] equal to item under
   type-matched equality, and is -1 exactly when no element of the list equals
   item. *)
C27_IndexFirstMatch ==
    (/\ builtinCall.fn = "index" /\ Len(builtinCall.args) = 2
     /\ builtinCall.args[1].type = "list") =>
        LET L == ListElements(builtinCall.args[1])
            item == builtinCall.args[2]
            hits == {i \in 0 .. (Len(L) - 1) : TypeMatchedEqual(L[i + 1], item)}
            index == builtinCall.ret
        IN /\ index.type = "float" /\ index.num[2] = 1
           /\ (index.num[1] = -1) <=> (hits = {})
           /\ hits # {} => index.num[1] \in hits /\ \A i \in hits : index.num[1] <= i

(* ------------------------------- C28 ----------------------------------- *)
(* a call interp(L, fraction) on a list of Floats with an element *)
InterpCalled ==
    /\ builtinCall.fn = "interp" /\ Len(builtinCall.args) = 2
    /\ builtinCall.args[1].type = "list" /\ ~builtinCall.args[1].null
    /\ LET L == BuiltinLists[builtinCall.args[1].ref]
       IN Len(L) > 0 /\ \A i \in 1 .. Len(L) : L[i].type = "float"

(* C28: for a list L of Floats with at least one element, interp(L, 0) is L[0]
   and interp(L, 1) is L[len(L) - 1], and a fraction below 0 or above 1 gives
   what 0 or 1 gives. *)
C28_InterpEnds ==
    InterpCalled =>
        LET L == BuiltinLists[builtinCall.args[1].ref]
            f == builtinCall.args[2].num
        IN /\ ~RLt(RZero, f) => builtinCall.ret = L[1]
           /\ ~RLt(f, <<1, 1>>) => builtinCall.ret = L[Len(L)]
           /\ builtinCall.warnings = <<>>

(* C28 witness: a fraction above 1 on a list of three Floats gives the last *)
C28_Witness ==
    /\ InterpCalled
    /\ builtinCall.args = <<BList(3), BFloat(2, 1)>>
    /\ builtinCall.ret = BFloat(8, 1)

(* ------------------------------- C29 ----------------------------------- *)
(* C29: for a string s and 0 <= start < end <= len(s), substring(s, start, end)
   is the end - start characters of s at start .. end - 1, and the end index is
   clamped, with a warning, only when end > len(s). *)
C29_SubstringRange ==
    (/\ builtinCall.fn = "substring" /\ Len(builtinCall.args) = 3
     /\ ~builtinCall.args[1].null
     /\ builtinCall.args[2].num[2] = 1 /\ builtinCall.args[3].num[2] = 1
     /\ 0 <= builtinCall.args[2].num[1]
     /\ builtinCall.args[2].num[1] < builtinCall.args[3].num[1]
     /\ builtinCall.args[3].num[1] <= Len(builtinCall.args[1].text)) =>
        /\ builtinCall.ret =
               BString(SubSeq(builtinCall.args[1].text, builtinCall.args[2].num[1] + 1,
                              builtinCall.args[3].num[1]))
        /\ builtinCall.warnings = <<>>

(* ------------------------------- C30 ----------------------------------- *)
(* C30: for a string s and 0 <= i <= j <= len(s), substring(s, i, j) followed
   by substring(s, j, len(s)) is substring(s, i, len(s)). *)
C30_SubstringSplit ==
    (/\ builtinCall.fn = "split"
     /\ builtinCall.args[2].num[2] = 1 /\ builtinCall.args[3].num[2] = 1
     /\ 0 <= builtinCall.args[2].num[1]
     /\ builtinCall.args[2].num[1] <= builtinCall.args[3].num[1]
     /\ builtinCall.args[3].num[1] <= Len(builtinCall.args[1].text)) =>
        /\ builtinCall.ret.x = builtinCall.ret.y
        /\ builtinCall.ret.x.type = "string" /\ ~builtinCall.ret.x.null

(* ------------------------------- C31 ----------------------------------- *)
(* the slots the engine holds: the chain of every BusQueue *)
QueuedSlots ==
    UNION {{Inst_Bus_Config[q].slot[n] : n \in 1 .. Len(Inst_Bus_Config[q].slot)} :
                         q \in 1 .. Len(Inst_Bus_Config)}
(* bus j is among the first bus_count entries of In_Config[k].bus_list *)
ParentRecorded(j, k) ==
    \E p \in 1 .. BusConfigs[k].In_Config.bus_count :
       BusConfigs[k].In_Config.bus_list[p] = j

(* C31: after any sequence of accepted bus_config calls, for every accepted slot
   and every pair (aux-in j, aux-out k) of the slot, j is in In_Config[k].bus_list
   within its bus_count: no parent entry is ever discarded. *)
C31_ParentsKept ==
    \A slot \in QueuedSlots :
       \A i \in 1 .. slot.auxout_count, j \in 1 .. slot.auxin_count :
          ParentRecorded(slot.auxin[j], slot.auxout[i])

(* ------------------------------- C32 ----------------------------------- *)
(* the chain of slots of an instrument, head first: qEntry->slot, ->next, ... *)
ChainOf(name) ==
    LET at == {q \in 1 .. Len(Inst_Bus_Config) : Inst_Bus_Config[q].inst_name = name}
    IN IF at = {} THEN << >>
       ELSE Inst_Bus_Config[CHOOSE q \in at : \A r \in at : q <= r].slot

(* C32: when bus_config is accepted for an instrument that already has a slot,
   the new slot becomes the head of the instrument's chain and the previous head
   becomes its next, so every earlier slot stays reachable from the head. *)
C32_PreviousHeadKept ==
    [][\A n \in InstNames :
          (/\ lastOp' = "bus_config" /\ lastErr' = "NO_ERR"
           /\ nCalls' = nCalls + 1 /\ lastAccepted'[n] = nCalls'
           /\ ChainOf(n) # << >>) =>
              /\ Len(ChainOf(n)') = Len(ChainOf(n)) + 1
              /\ ChainOf(n)'[1].id = nCalls'
              /\ Tail(ChainOf(n)') = ChainOf(n)]_vars

(* ------------------------------- C33 ----------------------------------- *)
(* thread t is at a lock statement whose mutex thread u holds *)
WaitsFor(t, u) ==
    /\ At(t, "lock")
    /\ mutexOwner[Stmt(lockThread[t].pc).m] = u
(* the threads a thread waits for, directly or through others *)
RECURSIVE WaitClosure(_, _)
WaitClosure(S, n) ==
    IF n = 0 THEN S
    ELSE WaitClosure(S \cup {u \in LockThreads : \E t \in S : WaitsFor(t, u)}, n - 1)
WaitsOn(t) == WaitClosure({u \in LockThreads : WaitsFor(t, u)}, Cardinality(LockThreads))
(* one order of the mutexes that every acquisition follows *)
MutexOrder ==
    <<"bus_slot_lock", "aux_in_use_lock", "has_child_lock", "Bus_Config_Status",
      "bus_in_config_lock", "has_parent_lock", "revplay_lock", "aux_to_aux_lock",
      "out_in_use_lock", "to_out_lock", "aux_out_in_use_lock", "to_aux_lock",
      "inst_bus_config_lock">>
MutexRank(m) == CHOOSE i \in 1 .. Len(MutexOrder) : MutexOrder[i] = m

(* C33: threads running bus_config, get_bus_config and the four print functions
   cannot deadlock: no thread waits for itself or in a circle of waiting
   threads, every thread acquires the mutexes in the one order MutexOrder, the
   mutexes a thread holds are exactly those owned by it, and a thread that has
   returned holds none. *)
C33_NoDeadlock ==
    /\ \A t \in LockThreads : t \notin WaitsOn(t)
    /\ \A t \in LockThreads :
          LET held == lockThread[t].held
          IN /\ \A i, j \in 1 .. Len(held) :
                   i < j => MutexRank(held[i]) < MutexRank(held[j])
             /\ \A m \in Mutexes : (mutexOwner[m] = t) <=> (\E i \in 1 .. Len(held) : held[i] = m)
             /\ lockThread[t].pc = "idle" => held = << >>
    /\ (\E t \in LockThreads : lockThread[t].pc # "idle") =>
          \E t \in LockThreads :
             /\ lockThread[t].pc # "idle"
             /\ At(t, "lock") => mutexOwner[Stmt(lockThread[t].pc).m] = "free"

(* C33 witness: one thread is inside check_bus_inst_config called by bf_traverse
   from create_play_order in bus_config, holding six mutexes, while a thread in
   print_parents and a thread entering get_bus_config wait for mutexes it holds *)
C33_Witness ==
    \E t, u, v \in LockThreads :
       /\ lockThread[t].pc = "cb328"
       /\ lockThread[t].stack = <<"bf471", "cp508", "bc1017">>
       /\ Len(lockThread[t].held) = 6
       /\ lockThread[u].pc = "pp128" /\ WaitsFor(u, t)
       /\ lockThread[v].pc = "gb544" /\ WaitsFor(v, t)

(* ------------------------------- C34 ----------------------------------- *)
(* create_play_order run on the graph as it is: the flags and parent lists it
   reads are those the last bus_config left, so it writes the same entries
   again; aux_p_count tells how many *)
PlayOrderRun ==
    LET roots == Ascending({b \in Buses :
                    BusConfigs[b].AuxInUse /\ ~BusConfigs[b].HasParent})
        g0 == [Graph EXCEPT !.AuxToAuxPlayList = StorePrefix(@, roots, 0)]
    IN PlayLeaves([g |-> g0, aux_p_count |-> Len(roots), visit |-> TRUE], 0)
(* the entries of AuxToAuxPlayList the last create_play_order wrote *)
PlayOrderWritten ==
    [i \in 1 .. (IF PlayOrderRun.aux_p_count < BusCount
                 THEN PlayOrderRun.aux_p_count ELSE BusCount) |-> AuxToAuxPlayList[i]]

(* C34: after every accepted bus_config, each aux bus whose AuxInUse flag is set
   appears exactly once among the entries create_play_order wrote to
   AuxToAuxPlayList, and no bus without AuxInUse appears there. *)
C34_PlayListComplete ==
    (lastOp = "bus_config" /\ lastErr = "NO_ERR") =>
        /\ PlayOrderRun.aux_p_count <= BusCount
        /\ \A b \in Buses :
              BusConfigs[b].AuxInUse =>
                 Cardinality({i \in DOMAIN PlayOrderWritten : PlayOrderWritten[i] = b}) = 1
        /\ \A i \in DOMAIN PlayOrderWritten :
              /\ PlayOrderWritten[i] \in Buses
              /\ BusConfigs[PlayOrderWritten[i]].AuxInUse

(* ------------------------------- C35 ----------------------------------- *)
(* an argument list or list literal under construction: a push_list and the
   two elements 1 and 2 collected into it *)
ListUnderConstruction(s) ==
    NodeListElem(<< [kind |-> "NodeConstf", val |-> 1], [kind |-> "NodeConstf", val |-> 2] >>,
                 2, push_list(s))

(* the calls of the score, and the list literals {}, {1, 2} and {1, {2}} *)
ListAndCallNodes ==
    [i \in CallStatements \ {4, 18} |-> Programs[i]]
    @@ (20 :> Programs[24].rhs)
    @@ (21 :> Programs[25].rhs)
    @@ (22 :> [kind |-> "NodeList",
               elems |-> << [kind |-> "NodeConstf", val |-> 1],
                            [kind |-> "NodeList",
                             elems |-> << [kind |-> "NodeConstf", val |-> 2] >>] >>])

StacksEqual(s, r) ==
    /\ r.sMincList = s.sMincList
    /\ r.sMincListLen = s.sMincListLen
    /\ r.list_stack_ptr = s.list_stack_ptr
    /\ Len(r.sCalledFunctions) = Len(s.sCalledFunctions)

(* C35: a NodeList or NodeCall that completes (a user function by running to
   its end or through a Ret) leaves sMincList, sMincListLen, list_stack_ptr
   and the depth of sCalledFunctions as they were before it: both when it is
   a statement of its own, and when it is evaluated while an enclosing list
   has collected the elements 1 and 2, which that list then still holds in
   order. *)
C35_StacksRestored ==
    /\ (minc.exc = "none" /\ stmt \in CallStatements) =>
          StacksEqual(InitMincState, minc)
    /\ minc.exc = "none" =>
          \A i \in DOMAIN ListAndCallNodes :
             LET pre == ListUnderConstruction(minc)
                 r == exct(ListAndCallNodes[i], pre)
             IN /\ pre.sMincList = << MincFloat(1), MincFloat(2) >>
                /\ pre.list_stack_ptr = minc.list_stack_ptr + 1
                /\ ~Raised(r) => StacksEqual(pre, r)

(* f1(f0()) has completed, both calls through a Ret; evaluated inside the
   list under construction, f2(4, {1}) and {1, {2}} complete as well *)
C35_Witness ==
    /\ stmt = 14
    /\ minc.exc = "none"
    /\ Len(minc.callLog) = 2
    /\ \A k \in 1 .. 2 : minc.callLog[k].how = "ret"
    /\ LET pre == ListUnderConstruction(minc)
       IN /\ ~Raised(exct(ListAndCallNodes[10], pre))
          /\ ~Raised(exct(ListAndCallNodes[22], pre))
          /\ ~Raised(exct(ListAndCallNodes[3], pre))
          /\ exct(ListAndCallNodes[3], pre).where = "end"

(* ------------------------------- C36 ----------------------------------- *)
(* C36: when a statement that is a Call ends with an exception other than a
   Ret, the exception leaves the Call with list_stack_ptr, sMincList,
   sMincListLen and the depth of sCalledFunctions as they were before the
   Call *)
C36_StacksUnwound ==
    [][(minc.exc = "none" /\ minc'.exc = "error" /\ stmt' \in CallStatements
           /\ Programs[stmt'].kind = "NodeCall")
       => StacksEqual(minc, minc')]_vars

(* ------------------------------- C37 ----------------------------------- *)
(* what the loop over the bus names of a call leaves: the slot it filled
   and whether a store or a BusConfigs index fell outside its array *)
NamesParsed(names) ==
    ParseArgs(names, 1,
              [slot |-> NewBusSlot(0), chain_incount |-> 0, chain_outcount |-> 0,
               bc |-> BusConfigs, overflow |-> FALSE, err |-> "NO_ERR"])

CountInRange(arr, count) ==
    /\ count \in 0 .. BusCount
    /\ \A n \in 0 .. count - 1 : Get(arr, n) \in Buses

(* C37: for the bus names of a call that parse_bus_name all accepts, no
   store into in, out, auxin or auxout and no index of BusConfigs falls
   outside the array, the four counts lie in 0..busCount and the bus
   indices stored lie in 0..busCount-1. *)
C37_IndicesInRange ==
    \A i \in 1 .. Len(hist) :
       (\A k \in 1 .. Len(hist[i].names) :
           ParseBusName(hist[i].names[k], BusCount) = "NO_ERR")
       => LET p == NamesParsed(hist[i].names)
          IN /\ ~p.overflow
             /\ CountInRange(p.slot.in, p.slot.in_count)
             /\ CountInRange(p.slot.out, p.slot.out_count)
             /\ CountInRange(p.slot.auxin, p.slot.auxin_count)
             /\ CountInRange(p.slot.auxout, p.slot.auxout_count)

(* ------------------------------- C38 ----------------------------------- *)
(* the map: breakpoints, tempi, beat positions, accelerations and the flag *)
TempoMap(s) == <<s.xtime, s.temp, s.rxtime, s.accel, s.tset>>

(* C38: a tempo call that dies of a zero tempo while a map is installed
   leaves the map as it was, and time_beat and beat_time give after it what
   they gave before it. *)
C38_FailedCallKeepsMap ==
    [][(tempoState.tset = 1 /\ tempoCall'.made /\ tempoCall'.outcome = "died"
           /\ 0 \in Tempi(tempoCall'.p))
       => /\ TempoMap(tempoState') = TempoMap(tempoState)
          /\ \A q \in QueryPoints :
                /\ time_beat(tempoState', q) = time_beat(tempoState, q)
                /\ beat_time(tempoState', q) = beat_time(tempoState, q)]_vars

(* ------------------------------- C39 ----------------------------------- *)
(* C39: after a tempo call with up to TLEN pairs and no zero tempo, every
   pair passed is a breakpoint of the map: the map has one point for each
   pair, and the time of pair i is in xtime[i]. *)
C39_AllPairsStored ==
    (tempoCall.made /\ tempoCall.outcome = "set" /\ 0 \notin Tempi(tempoCall.p)
        /\ Len(tempoCall.p) \div 2 <= TLEN)
    => /\ tempoState.npts = (Len(tempoCall.p) \div 2) + 1
       /\ \A i \in 1 .. (Len(tempoCall.p) \div 2) :
             tempoState.xtime[i] = Num(tempoCall.p[2 * i - 1])

(* ------------------------------- C40 ----------------------------------- *)
(* C40: for a call substring(s, start, end) with 0 <= start < end, whatever
   the length of s, the buffer allocated has a positive length
   len(s) - start + 1 and the terminator is stored at an index in
   0 .. len(s) - start. *)
C40_SubstringInBuffer ==
    (/\ builtinCall.fn = "substring" /\ Len(builtinCall.args) = 3
     /\ builtinCall.args[1].type = "string" /\ ~builtinCall.args[1].null
     /\ 0 <= Trunc(builtinCall.args[2].num)
     /\ Trunc(builtinCall.args[2].num) < Trunc(builtinCall.args[3].num)) =>
        LET len == Len(builtinCall.args[1].text)
            startIdx == Trunc(builtinCall.args[2].num)
            endIdx == Trunc(builtinCall.args[3].num)
        IN /\ SubstringNewLen(len, startIdx) > 0
           /\ SubstringTerminator(len, startIdx, endIdx) \in 0 .. len - startIdx

====
